---- MODULE Spec2Model ----
(***************************************************************************)
(* Model of the Python <-> QuickJS bridge in module.c: the execution       *)
(* bracket (prepare_call_js / end_call_js, prepare_call_python /           *)
(* end_call_python), the time-limit interrupt handler, the registry of     *)
(* Python callables (a NULL-terminated doubly linked list), the engine     *)
(* finalizer of registered function objects, reference counting of         *)
(* _quickjs.Context and _quickjs.Object, and the value conversions.        *)
(*                                                                         *)
(* One host thread is modelled.  Its call stack is `stack`: a "js" frame   *)
(* is script running inside JS_Eval / JS_Call / JS_ExecutePendingJob, a    *)
(* "py" frame is a Python callable entered through                         *)
(* js_python_function_call.  With an empty stack, or a "py" frame on top,  *)
(* host code is running and may start any host-facing operation.           *)
(***************************************************************************)
EXTENDS Integers, Sequences, FiniteSets, TLC

\* ---------------------------------------------------------------- bounds
MaxNodes == 2       \* PythonCallableNode allocations over a behaviour
MaxHandles == 2     \* _quickjs.Object instances alive at one time
MaxDepth == 3       \* frames on the host thread's call stack
MaxArgs == 2        \* arguments of one _quickjs.Object call
MaxLimit == 2       \* largest time limit, in clock ticks
MaxJobs == 2        \* pending jobs of one engine runtime; jobs enqueued while draining

NULL == 0
Rts == {1, 2}                 \* two _quickjs.Context instances, A and B
Nodes == 1..MaxNodes          \* node n is the opaque of function object n
Handles == 1..MaxHandles
Targets == 0..MaxNodes        \* 0: the global object; n: function object n

\* ----------------------------------------------------------------- state
VARIABLES
  thread_state,      \* [Rts -> BOOLEAN]  runtime_data->thread_state != NULL
  has_time_limit,    \* [Rts -> BOOLEAN]
  time_limit,        \* [Rts -> Nat]  the limit, in clock ticks
  interrupt_data,    \* [Rts -> record]  limit, and clock() - start as elapsed
  interrupt_handler, \* [Rts -> BOOLEAN]  JS_SetInterruptHandler(rt, cb) set
  python_callables,  \* [Rts -> Nodes \cup {NULL}]  head of the list
  node,              \* [Nodes -> record]  the PythonCallableNode structs
  fn,                \* [Nodes -> record]  the PythonFunction engine objects
  objrc,             \* [Rts -> Nat]  engine refcount of the global object
  gself,             \* [Rts -> BOOLEAN] a global property holds the global object
  handles,           \* [Handles -> record]  the _quickjs.Object instances
  refcnt,            \* [Rts -> Nat]  ob_refcnt of the _quickjs.Context
  hostRef,           \* [Rts -> BOOLEAN] host code still names the Context
  rtState,           \* [Rts -> {"active", "cleared", "torn"}]
  gil,               \* TRUE: the host thread holds the GIL
  stack,             \* call stack of the host thread, innermost last
  pyErr,             \* pending Python error of the host thread
  violated,           \* names of the assert()s that were violated
  released,          \* [Nodes -> Nat]  Py_DECREFs of node n's callable
  mutHeld,           \* every registry mutation so far held the GIL
  foreignPassed,     \* python_to_quickjs ran on another runtime's handle
  cv,                \* one engine value under quickjs_to_python, by itself
  xv,                \* one host value on its way into the engine and back
  mt,                \* two host threads and the Contexts they enter
  jobs,              \* the engines' lists of pending jobs, and the host loop that
                     \* drains one of them
  jsRet,             \* what the running script was last handed: the return of a
                     \* dispatch, or the exception of an interruption
  pyInfo,            \* message and cause of the exception a script run ended with
  rejectedAt         \* position of the bad argument of the last rejected call

vars == <<thread_state, has_time_limit, time_limit, interrupt_data,
          interrupt_handler, python_callables,
          node, fn, objrc, gself, handles, refcnt, hostRef, rtState, gil, stack,
          pyErr, violated, released, mutHeld, foreignPassed, cv,
          xv, mt, jobs, jsRet, pyInfo, rejectedAt>>

brackVars == <<thread_state, interrupt_handler, interrupt_data, gil, violated>>
limitVars == <<has_time_limit, time_limit>>
heapVars == <<python_callables, node, fn, objrc, released, mutHeld>>
lifeVars == <<handles, refcnt, hostRef, rtState>>
auxVars == <<cv, xv, mt, jobs>>
excVars == <<jsRet, pyInfo>>

\* --------------------------------------------------------------- helpers
HostOnTop == IF stack = <<>> THEN TRUE ELSE stack[Len(stack)].kind = "py"
ScriptOnTop == IF stack = <<>> THEN FALSE ELSE stack[Len(stack)].kind = "js"
Top == stack[Len(stack)]
Pop == SubSeq(stack, 1, Len(stack) - 1)
InStack(r) == \E i \in 1..Len(stack) : stack[i].rt = r

\* The C functions are modelled as functions on the part of the state that
\* they read and write, so that a handler is the composition of its calls.
St == [ts |-> thread_state, gil |-> gil, ih |-> interrupt_handler,
       idata |-> interrupt_data,
       vio |-> violated, node |-> node, head |-> python_callables,
       fn |-> fn, rel |-> released, mut |-> mutHeld, objrc |-> objrc]

SetSt(S) ==
  /\ thread_state' = S.ts
  /\ gil' = S.gil
  /\ interrupt_handler' = S.ih
  /\ interrupt_data' = S.idata
  /\ violated' = S.vio
  /\ node' = S.node
  /\ python_callables' = S.head
  /\ fn' = S.fn
  /\ released' = S.rel
  /\ mutHeld' = S.mut
  /\ objrc' = S.objrc

Fail(S, cond, name) == IF cond THEN S.vio \cup {name} ELSE S.vio

\* ------------------------------------------------- the execution bracket
\* a setup that registers the handler and leaves the start time of the
\* call before in place
setup_time_limit_NoRestart(S, r) ==
  IF has_time_limit[r]
  THEN [S EXCEPT !.ih[r] = TRUE, !.idata[r].limit = time_limit[r]]
  ELSE S

\* module.c: setup_time_limit; elapsed is clock() - interrupt_data->start
setup_time_limit(S, r) ==
  IF has_time_limit[r]
  THEN [S EXCEPT !.ih[r] = TRUE,
                 !.idata[r] = [limit |-> time_limit[r], elapsed |-> 0]]
  ELSE S

\* teardown_time_limit that leaves the handler registered
teardown_time_limit_Skip(S, r) == S

\* module.c: teardown_time_limit
teardown_time_limit(S, r) ==
  IF has_time_limit[r] THEN [S EXCEPT !.ih[r] = FALSE] ELSE S

\* module.c: prepare_call_js
prepare_call_js(S, r) ==
  setup_time_limit(
    [S EXCEPT !.vio = Fail(S, S.ts[r], "prepare_call_js"),
              !.ts[r] = TRUE,
              !.gil = FALSE], r)

\* end_call_js without PyEval_RestoreThread
end_call_js_NoRestore(S, r) ==
  LET S1 == teardown_time_limit(S, r) IN
  [S1 EXCEPT !.vio = Fail(S1, ~S1.ts[r], "end_call_js"),
             !.ts[r] = FALSE]

\* module.c: end_call_js
end_call_js(S, r) ==
  LET S1 == teardown_time_limit(S, r) IN
  [S1 EXCEPT !.vio = Fail(S1, ~S1.ts[r], "end_call_js"),
             !.gil = TRUE,
             !.ts[r] = FALSE]

\* prepare_call_python that leaves thread_state set
prepare_call_python_KeepSlot(S, r) ==
  [S EXCEPT !.vio = Fail(S, ~S.ts[r], "prepare_call_python"),
            !.gil = TRUE]

\* module.c: prepare_call_python
prepare_call_python(S, r) ==
  [S EXCEPT !.vio = Fail(S, ~S.ts[r], "prepare_call_python"),
            !.gil = TRUE,
            !.ts[r] = FALSE]

\* an exit path of the dispatch that leaves out end_call_python
end_call_python_Forgotten(S, r) == S

\* module.c: end_call_python
end_call_python(S, r) ==
  [S EXCEPT !.vio = Fail(S, S.ts[r], "end_call_python"),
            !.ts[r] = TRUE,
            !.gil = FALSE]

\* ------------------------------------------------- registry and finalizer
FreedNode(r) == [st |-> "freed", rt |-> r, obj |-> NULL, prev |-> NULL,
                 next |-> NULL]
DeadFn(r) == [st |-> "dead", rt |-> r, global |-> FALSE, cyc |-> FALSE,
              rc |-> 0, opaque |-> NULL]

\* Py_DECREF in place of Py_XDECREF: releases without looking at the slot
Py_XDECREF_obj_Always(S, nd) == [S.rel EXCEPT ![nd] = @ + 1]

\* module.c: js_python_function_finalizer, Py_XDECREF(node->obj)
Py_XDECREF_obj(S, nd) ==
  IF S.node[nd].obj # NULL THEN [S.rel EXCEPT ![nd] = @ + 1] ELSE S.rel

\* a finalizer that keeps the GIL it took
js_python_function_finalizer_exit_KeepGil(S, r, held) == held

\* module.c: js_python_function_finalizer, its last statement:
\* if (thread_state) thread_state = PyEval_SaveThread(); the GIL afterwards
js_python_function_finalizer_exit(S, r, held) ==
  IF S.ts[r] THEN FALSE ELSE held

\* an unlink that leaves the prev of the successor as it was
PythonCallableNode_unlink_NoPrevFix(S, nd) ==
  LET r == S.node[nd].rt
      p == S.node[nd].prev
      x == S.node[nd].next
  IN [node |-> IF p # NULL THEN [S.node EXCEPT ![p].next = x] ELSE S.node,
      head |-> IF p # NULL THEN S.head ELSE [S.head EXCEPT ![r] = x]]

\* module.c: js_python_function_finalizer, the node taken off the list:
\* node->prev->next or python_callables, and node->next->prev
PythonCallableNode_unlink(S, nd) ==
  LET r == S.node[nd].rt
      p == S.node[nd].prev
      x == S.node[nd].next
      n1 == IF p # NULL THEN [S.node EXCEPT ![p].next = x] ELSE S.node
  IN [node |-> IF x # NULL THEN [n1 EXCEPT ![x].prev = p] ELSE n1,
      head |-> IF p # NULL THEN S.head ELSE [S.head EXCEPT ![r] = x]]

\* module.c: js_python_function_finalizer, run by the engine on function
\* object n.  The list is changed and the callable released under whatever
\* GIL state the two `if (runtime_data->thread_state)` tests establish.
js_python_function_finalizer(S, n) ==
  LET nd == S.fn[n].opaque IN
  IF nd = NULL THEN S
  ELSE
    LET r == S.node[nd].rt
        p == S.node[nd].prev
        x == S.node[nd].next
        \* if (thread_state) PyEval_RestoreThread(thread_state)
        held == IF S.ts[r] THEN TRUE ELSE S.gil
        un == PythonCallableNode_unlink(S, nd)
        h1 == un.head
        n2 == un.node
        \* Py_XDECREF(node->obj); PyMem_Free(node)
        r1 == Py_XDECREF_obj(S, nd)
        n3 == [n2 EXCEPT ![nd] = FreedNode(r)]
    IN [S EXCEPT !.node = n3, !.head = h1, !.rel = r1,
                 !.fn[n].opaque = NULL,
                 !.mut = (S.mut /\ held),
                 !.gil = js_python_function_finalizer_exit(S, r, held)]

\* a release that finalizes a function object while references are left
JS_FreeValue_Eager(S, r, t) ==
  IF t = 0 THEN [S EXCEPT !.objrc[r] = @ - 1]
  ELSE
    LET S1 == [S EXCEPT !.fn[t].rc = @ - 1] IN
    [js_python_function_finalizer(S1, t) EXCEPT !.fn[t] = DeadFn(r)]

\* JS_FreeValue on the engine value t of runtime r (0: the global object,
\* n: function object n): the count drops and a function object whose count
\* reaches zero is finalized at once.
JS_FreeValue(S, r, t) ==
  IF t = 0 THEN [S EXCEPT !.objrc[r] = @ - 1]
  ELSE
    LET S1 == [S EXCEPT !.fn[t].rc = @ - 1] IN
    IF S1.fn[t].rc = 0
    THEN [js_python_function_finalizer(S1, t) EXCEPT !.fn[t] = DeadFn(r)]
    ELSE S1

\* JS_DupValue
JS_DupValue(S, r, t) ==
  IF t = 0 THEN [S EXCEPT !.objrc[r] = @ + 1]
  ELSE [S EXCEPT !.fn[t].rc = @ + 1]

\* Function objects of runtime r that only a reference cycle keeps alive.
Garbage(S, r) ==
  {n \in Nodes : /\ S.fn[n].st = "live" /\ S.fn[n].rt = r
                 /\ S.fn[n].cyc /\ ~S.fn[n].global /\ S.fn[n].rc = 1}

RECURSIVE FinalizeAll(_, _)
FinalizeAll(S, ns) ==
  IF ns = {} THEN S
  ELSE LET n == CHOOSE m \in ns : TRUE
           S1 == js_python_function_finalizer(S, n)
       IN FinalizeAll([S1 EXCEPT !.fn[n] = DeadFn(S.fn[n].rt)], ns \ {n})

\* a collector that frees every function object that is on a cycle, whether
\* or not the script can still reach it
JS_RunGC_AllCycles(S, r) ==
  FinalizeAll(S, {n \in Nodes : /\ S.fn[n].st = "live" /\ S.fn[n].rt = r
                                /\ S.fn[n].cyc})

\* The engine's cycle collector (JS_RunGC, or triggered by an allocation).
JS_RunGC(S, r) == FinalizeAll(S, Garbage(S, r))

\* ------------------------------------------------------------------ Init
\* no conversion under study
NoConv == [tag |-> "none", rc0 |-> 0, rc |-> 0, held |-> 0, frees |-> 0,
           ret |-> "NULL", err |-> "none", done |-> TRUE]

\* nothing returned to the engine by a dispatch; no exception converted
NoRet == [tag |-> "none", n |-> 0, s |-> <<>>, msg |-> "none"]
NoInfo == [msg |-> "none", cause |-> "none", type |-> "none"]

\* Two contexts fresh from pyjscontext_tp_new, each named once by the host.
InitBridge ==
  /\ thread_state = [r \in Rts |-> FALSE]
  /\ has_time_limit = [r \in Rts |-> FALSE]
  /\ time_limit = [r \in Rts |-> 0]
  /\ interrupt_data = [r \in Rts |-> [limit |-> 0, elapsed |-> 0]]
  /\ interrupt_handler = [r \in Rts |-> FALSE]
  /\ python_callables = [r \in Rts |-> NULL]
  /\ node = [n \in Nodes |-> [st |-> "unalloc", rt |-> 0, obj |-> NULL,
                              prev |-> NULL, next |-> NULL]]
  /\ fn = [n \in Nodes |-> [st |-> "none", rt |-> 0, global |-> FALSE,
                            cyc |-> FALSE, rc |-> 0, opaque |-> NULL]]
  /\ objrc = [r \in Rts |-> 1]
  /\ gself = [r \in Rts |-> FALSE]
  /\ handles = [h \in Handles |-> [st |-> "none", rt |-> 0, val |-> 0]]
  /\ refcnt = [r \in Rts |-> 1]
  /\ hostRef = [r \in Rts |-> TRUE]
  /\ rtState = [r \in Rts |-> "active"]
  /\ gil = TRUE
  /\ stack = <<>>
  /\ pyErr = "none"
  /\ violated = {}
  /\ released = [n \in Nodes |-> 0]
  /\ mutHeld = TRUE
  /\ foreignPassed = FALSE
  /\ jsRet = NoRet
  /\ pyInfo = NoInfo

\* no value under study
NoValue == [stage |-> "none"]

\* The bridge as two host threads see it.  Thread t owns thread state t;
\* cur[t] is the thread state current on thread t (0: none), gilHolder the
\* thread that holds the GIL (0: nobody).  th[t] tells where thread t is
\* and which thread state it saved at its last enter; rt[r] holds the
\* fields of Context r.  ndebug: the build compiles assert() away.
Threads == {1, 2}
ThreadIdle == [pc |-> "host", rt |-> 0, saved |-> 0]
RtIdle == [slot |-> 0, has_time_limit |-> FALSE, time_limit |-> 0,
           handler |-> FALSE, limit |-> 0, registry |-> 0, engine |-> 0]
NoThreads == [on |-> FALSE, ndebug |-> FALSE, aborted |-> FALSE,
              overwritten |-> FALSE, gilHolder |-> 1,
              cur |-> [t \in Threads |-> IF t = 1 THEN 1 ELSE 0],
              th |-> [t \in Threads |-> ThreadIdle],
              rt |-> [r \in Rts |-> RtIdle], acted |-> 0]

\* No job is pending on either runtime and no host loop is draining.  list:
\* the jobs pending per runtime; loop: the host runs execute_pending_job in a
\* loop; ret: what the last call of that loop returned; made: the jobs that
\* were enqueued since the loop began.
NoJobs == [list |-> [r \in Rts |-> 0], made |-> 0, loop |-> FALSE,
           ret |-> "none"]

Init ==
  /\ InitBridge /\ cv = NoConv /\ xv = NoValue /\ mt = NoThreads
  /\ jobs = NoJobs /\ rejectedAt = 0


\* ----------------------------------------------------- value conversions
\* Python values handed to the bridge: the five primitive kinds, a value of
\* an unsupported type, or a _quickjs.Object (by handle index).  h is the
\* handle index of an Object and the number of an int.
Prims == {"bool", "int", "float", "None", "str"}
Item(kind, h) == [kind |-> kind, h |-> h]
Items == {Item(k, 0) : k \in Prims \cup {"other"}} \cup
         {Item("Object", h) : h \in Handles}
Raise == Item("raise", 0)
IsH(item) == item.kind = "Object"
IsForeign(r, item) == IsH(item) /\ handles[item.h].rt # r

\* python_to_quickjs_possible without the test of the owning Context
python_to_quickjs_possible_AnyContext(r, item) ==
  IF item.kind \in Prims \cup {"Object"} THEN "ok" ELSE "TypeError"

\* module.c: python_to_quickjs_possible; "ok" stands for the return value 1,
\* otherwise the name of the Python error that is set
python_to_quickjs_possible(r, item) ==
  IF item.kind \in Prims THEN "ok"
  ELSE IF IsH(item)
       THEN IF handles[item.h].rt # r THEN "ValueError" ELSE "ok"
       ELSE "TypeError"

\* module.c: python_to_quickjs; only a _quickjs.Object touches the engine
\* heap (JS_DupValue of its engine value)
python_to_quickjs(S, r, item) ==
  IF IsH(item)
  THEN JS_DupValue(S, handles[item.h].rt, handles[item.h].val)
  ELSE S

RECURSIVE FirstBad(_, _, _)
\* module.c: pyjsobject_tp_call, the first loop: index of the first argument
\* that cannot be converted, 0 when there is none
FirstBad(r, args, i) ==
  IF i > Len(args) THEN 0
  ELSE IF python_to_quickjs_possible(r, args[i]) # "ok" THEN i
       ELSE FirstBad(r, args, i + 1)

\* a single pass that converts each argument before looking at the next
TpCallPlan_OnePass(r, args) ==
  LET bad == FirstBad(r, args, 1) IN
  IF bad # 0
  THEN [reject |-> TRUE, err |-> python_to_quickjs_possible(r, args[bad]),
        conv |-> SubSeq(args, 1, bad - 1), alloc |-> TRUE]
  ELSE [reject |-> FALSE, err |-> "none", conv |-> args,
        alloc |-> Len(args) > 0]

\* module.c: pyjsobject_tp_call up to prepare_call_js: which arguments are
\* converted, whether the argument array is allocated, whether it rejects
TpCallPlan(r, args) ==
  LET bad == FirstBad(r, args, 1) IN
  IF bad # 0
  THEN [reject |-> TRUE, err |-> python_to_quickjs_possible(r, args[bad]),
        conv |-> <<>>, alloc |-> FALSE]
  ELSE [reject |-> FALSE, err |-> "none", conv |-> args,
        alloc |-> Len(args) > 0]

RECURSIVE ConvertAll(_, _, _, _)
\* module.c: pyjsobject_tp_call, the second loop
ConvertAll(S, r, items, i) ==
  IF i > Len(items) THEN S
  ELSE ConvertAll(python_to_quickjs(S, r, items[i]), r, items, i + 1)

RECURSIVE FreeAll(_, _, _)
\* module.c: pyjsobject_tp_call, JS_FreeValue of every jsargs[i]
FreeAll(S, refs, i) ==
  IF i > Len(refs) THEN S
  ELSE FreeAll(JS_FreeValue(S, refs[i][1], refs[i][2]), refs, i + 1)

HandleItems(items) == {i \in 1..Len(items) : IsH(items[i])}

RECURSIVE Refs(_, _)
\* the engine values (runtime, target) that jsargs holds a reference to
Refs(items, i) ==
  IF i > Len(items) THEN <<>>
  ELSE IF IsH(items[i])
       THEN <<<<handles[items[i].h].rt, handles[items[i].h].val>>>>
            \o Refs(items, i + 1)
       ELSE Refs(items, i + 1)

ObjectTags == {"OBJECT", "MODULE", "SYMBOL"}

\* a handle that takes no reference to its Context
quickjs_to_python_object_NoIncref(base, allocOk) ==
  IF allocOk
  THEN [base EXCEPT !.ret = "Object", !.handle = TRUE, !.dup = 1]
  ELSE [base EXCEPT !.err = "MemoryError"]

\* module.c: quickjs_to_python, the branch of the object-like tags:
\* PyType_GenericAlloc, Py_INCREF(runtime_data), JS_DupValue
quickjs_to_python_object(base, allocOk) ==
  IF allocOk
  THEN [base EXCEPT !.ret = "Object", !.handle = TRUE, !.incref = 1,
                    !.dup = 1]
  ELSE [base EXCEPT !.err = "MemoryError"]

\* a finish: that frees the input only when a result is returned
quickjs_to_python_finish_OnSuccess(plan) ==
  [plan EXCEPT !.free = IF plan.ret = "NULL" THEN @ ELSE @ + 1]

\* module.c: quickjs_to_python, the finish: label: JS_FreeValue(value)
quickjs_to_python_finish(plan) == [plan EXCEPT !.free = @ + 1]

\* module.c: quickjs_to_python, as the effects of one run on a value of the
\* given tag: the Python result (NULL: none), whether a handle is made, the
\* Py_INCREFs of the runtime, the JS_DupValue and JS_FreeValue calls on the
\* input, whether the pending exception is fetched, the Python error raised
quickjs_to_python(tag, allocOk) ==
  LET base == [ret |-> "NULL", handle |-> FALSE, incref |-> 0, dup |-> 0,
               free |-> 0, exc |-> FALSE, err |-> "none"] IN
  quickjs_to_python_finish(
  CASE tag = "INT" -> [base EXCEPT !.ret = "int"]
    [] tag = "BIG_INT" -> [base EXCEPT !.ret = "int"]
    [] tag = "BOOL" -> [base EXCEPT !.ret = "bool"]
    [] tag = "NULL" -> [base EXCEPT !.ret = "None"]
    [] tag = "UNDEFINED" -> [base EXCEPT !.ret = "None"]
    [] tag = "EXCEPTION" -> [base EXCEPT !.exc = TRUE, !.err = "JSException"]
    [] tag = "FLOAT64" -> [base EXCEPT !.ret = "float"]
    [] tag = "STRING" -> [base EXCEPT !.ret = "str"]
    [] tag \in ObjectTags -> quickjs_to_python_object(base, allocOk)
    [] OTHER -> [base EXCEPT !.err = "TypeError"])

\* The values a script hands back in the model: a primitive, a pending
\* exception, or an engine object (the global object or a function object).
Result(tag, t) == [tag |-> tag, t |-> t]
Results == {Result("INT", 0), Result("EXCEPTION", 0)} \cup
           {Result("OBJECT", t) : t \in Targets}
IsObj(res) == res.tag \in ObjectTags

FreeHandle == CHOOSE h \in Handles : handles[h].st = "none" /\
                \A k \in Handles : handles[k].st = "none" => h <= k

\* quickjs_to_python applied on runtime r to the value res that the engine
\* returned (an owned reference): the new state and the plan that was run
Convert(S, r, res, allocOk) ==
  LET plan == quickjs_to_python(res.tag, allocOk) IN
  IF ~IsObj(res) THEN [st |-> S, plan |-> plan]
  ELSE LET S1 == IF plan.dup = 1 THEN JS_DupValue(S, r, res.t) ELSE S
           S2 == IF plan.free = 1 THEN JS_FreeValue(S1, r, res.t) ELSE S1
       IN [st |-> S2, plan |-> plan]

NewHandle(plan, r, res) ==
  IF plan.handle
  THEN [handles EXCEPT ![FreeHandle] = [st |-> "live", rt |-> r, val |-> res.t]]
  ELSE handles

\* A function object the running script can name.
Reachable(f, n) ==
  /\ fn[n].st = "live" /\ fn[n].rt = f.rt
  /\ \/ fn[n].global
     \/ f.callee = n
     \/ \E i \in 1..Len(f.args) : f.args[i] = <<f.rt, n>>

CanReturn(f, res) ==
  IF ~IsObj(res) THEN TRUE
  ELSE /\ IF res.t = 0 THEN TRUE ELSE Reachable(f, res.t)
       /\ \E h \in Handles : handles[h].st = "none"

Frame(kind, r, op, self, callee, args, argh) ==
  [kind |-> kind, rt |-> r, op |-> op, self |-> self, callee |-> callee,
   args |-> args, argh |-> argh]

\* ------------------------------------------------- conversions, by value
\* Integer widths are scaled down: EngineIntBits stands for the 32 bits of a
\* JS_TAG_INT payload, LongBits for the 64 bits of a C long on LP64 builds.
\* A build whose long has the engine's width (ILP32, LLP64) is the other
\* case; xv.lb holds the width of long of the build under study.
EngineIntBits == 4
LongBits == 6
MaxStr == 2         \* characters of a host string
MaxHalf == 3        \* host floats are k/2 for k in -MaxHalf..MaxHalf

Pow2(w) == 2 ^ w
\* the value a C integer type of w bits keeps of v (two's complement)
Wrap(v, w) == ((v + Pow2(w - 1)) % Pow2(w)) - Pow2(w - 1)
Fits(v, w) == v >= -Pow2(w - 1) /\ v < Pow2(w - 1)

\* Host and script values: kind or tag, number n (integers as themselves,
\* floats in halves, booleans 0 or 1), characters s (0 is U+0000).
Val(kind, n, s) == [kind |-> kind, n |-> n, s |-> s]
Chars == 0..2
Strings == UNION {[1..k -> Chars] : k \in 0..MaxStr}
PyInts == (0 - Pow2(LongBits))..Pow2(LongBits)
PyValues ==
  {Val("bool", b, <<>>) : b \in {0, 1}} \cup
  {Val("int", v, <<>>) : v \in PyInts} \cup
  {Val("float", k, <<>>) : k \in (0 - MaxHalf)..MaxHalf} \cup
  {Val("None", 0, <<>>)} \cup
  {Val("str", 0, str) : str \in Strings}

RECURSIVE CString(_)
\* what a reader of a NUL-terminated char * sees of the characters s
CString(s) ==
  IF s = <<>> THEN <<>>
  ELSE IF Head(s) = 0 THEN <<>>
  ELSE <<Head(s)>> \o CString(Tail(s))

\* PyNumber_Float of a host integer, in halves
PyNumber_Float(v) == 2 * v

\* module.c: python_to_quickjs, the PyLong_Check branch on a build whose
\* long has lb bits: PyLong_AsLongAndOverflow, then JS_MKVAL(JS_TAG_INT,
\* value), which stores value in an int32
python_to_quickjs_long(v, lb) ==
  IF ~Fits(v, lb)
  THEN Val("FLOAT64", PyNumber_Float(v), <<>>)
  ELSE Val("INT", Wrap(v, EngineIntBits), <<>>)

\* module.c: python_to_quickjs, the PyUnicode_Check branch:
\* JS_NewString(ctx, PyUnicode_AsUTF8(item)) reads a NUL-terminated text
python_to_quickjs_str(str) == Val("STRING", 0, CString(str))

\* module.c: python_to_quickjs on the primitive kinds, by value
python_to_quickjs_val(item, lb) ==
  CASE item.kind = "bool" -> Val("BOOL", IF item.n = 1 THEN 1 ELSE 0, <<>>)
    [] item.kind = "int" -> python_to_quickjs_long(item.n, lb)
    [] item.kind = "float" -> Val("FLOAT64", item.n, <<>>)
    [] item.kind = "None" -> Val("NULL", 0, <<>>)
    [] item.kind = "str" -> python_to_quickjs_str(item.s)
    [] OTHER -> Val("UNDEFINED", 0, <<>>)

RECURSIVE Decimal(_)
\* the decimal digits of n >= 0, most significant first
Decimal(n) == IF n < 10 THEN <<n>> ELSE Append(Decimal(n \div 10), n % 10)

\* JS_ToCString of a BigInt: its sign and decimal digits
JS_ToCString_BigInt(n) ==
  [neg |-> n < 0, digits |-> Decimal(IF n < 0 THEN 0 - n ELSE n)]

RECURSIVE FromDecimal(_, _)
\* the number that the first k of the digits spell
FromDecimal(digits, k) ==
  IF k = 0 THEN 0 ELSE 10 * FromDecimal(digits, k - 1) + digits[k]

\* PyLong_FromString(cstring, NULL, 10)
PyLong_FromString(str) ==
  LET v == FromDecimal(str.digits, Len(str.digits)) IN
  IF str.neg THEN 0 - v ELSE v

\* a conversion by value without the branch of JS_TAG_BIG_INT
quickjs_to_python_val_NoBigInt(js) ==
  CASE js.tag = "INT" -> Val("int", js.n, <<>>)
    [] js.tag = "BOOL" -> Val("bool", IF js.n # 0 THEN 1 ELSE 0, <<>>)
    [] js.tag = "NULL" -> Val("None", 0, <<>>)
    [] js.tag = "UNDEFINED" -> Val("None", 0, <<>>)
    [] js.tag = "FLOAT64" -> Val("float", js.n, <<>>)
    [] js.tag = "STRING" -> Val("str", 0, CString(js.s))
    [] OTHER -> Val("NULL", 0, <<>>)

\* module.c: quickjs_to_python on the primitive tags, by value
quickjs_to_python_val(js) ==
  CASE js.tag = "INT" -> Val("int", js.n, <<>>)
    [] js.tag = "BIG_INT" ->
         Val("int", PyLong_FromString(JS_ToCString_BigInt(js.n)), <<>>)
    [] js.tag = "BOOL" -> Val("bool", IF js.n # 0 THEN 1 ELSE 0, <<>>)
    [] js.tag = "NULL" -> Val("None", 0, <<>>)
    [] js.tag = "UNDEFINED" -> Val("None", 0, <<>>)
    [] js.tag = "FLOAT64" -> Val("float", js.n, <<>>)
    [] js.tag = "STRING" -> Val("str", 0, CString(js.s))
    [] OTHER -> Val("NULL", 0, <<>>)

\* the record of a script value, by tag
JsVal(v) == [tag |-> v.kind, n |-> v.n, s |-> v.s]

\* what js_python_function_call returns to the engine: a value, or
\* JS_EXCEPTION with the engine's pending exception named by msg
Ret(v) == [tag |-> v.kind, n |-> v.n, s |-> v.s, msg |-> "none"]
JS_Throw(msg) == [tag |-> "EXCEPTION", n |-> 0, s |-> <<>>, msg |-> msg]

\* the engine's pending exception when a script run ends with one: the one
\* the last dispatch or the interruption threw, or some other one, thrown
\* by the script or by the engine itself
Pending == IF jsRet.tag = "EXCEPTION" THEN jsRet.msg ELSE "other"

\* module.c: quickjs_exception_to_python: PyErr_Format of a new exception
\* from the text of the engine's exception; a Python error that was pending
\* is replaced, and nothing is attached to the new exception
\* the exceptions a script run can end with besides those of the bridge:
\*   StackOverflow        the engine's InternalError on exceeding the stack
\*                        limit, with the text Error.prototype.toString gives
\*   StackOverflowRenamed the same, the script having replaced the toString
\*                        that JS_ToCString calls
\*   ThrownMarker         a value thrown by the script, within the stack
\*                        limit, whose text contains the words
\*   NoString             a value whose conversion to a string fails
ThrowKinds == {"StackOverflow", "StackOverflowRenamed", "ThrownMarker",
               "NoString"}

\* the engine exceeded its stack limit (JS_ThrowStackOverflow)
StackLimitExceeded(msg) == msg \in {"StackOverflow", "StackOverflowRenamed"}

\* JS_ToCString(context, exception): the text of the exception as words, or
\* NULL; the bridge's own exceptions are InternalErrors with their message
JS_ToCString(msg) ==
  CASE msg = "NoString" -> [null |-> TRUE, words |-> <<>>]
    [] msg = "StackOverflow" ->
         [null |-> FALSE, words |-> <<"InternalError:", "stack overflow">>]
    [] msg = "StackOverflowRenamed" ->
         [null |-> FALSE, words |-> <<"renamed">>]
    [] msg = "ThrownMarker" ->
         [null |-> FALSE, words |-> <<"Error:", "stack overflow", "thrown">>]
    [] msg = "other" -> [null |-> FALSE, words |-> <<"Error:", "other">>]
    [] OTHER -> [null |-> FALSE, words |-> <<"InternalError:", msg>>]

\* strstr(cstring, needle) != NULL
strstr(words, needle) == \E i \in 1..Len(words) : words[i] = needle

\* a translation that knows the base type only
quickjs_exception_to_python_Base(msg) ==
  [msg |-> msg, cause |-> "none", type |-> "JSException"]

quickjs_exception_to_python(msg) ==
  LET cstring == JS_ToCString(msg) IN
  [msg |-> msg, cause |-> "none",
   type |-> IF ~cstring.null /\ strstr(cstring.words, "stack overflow")
            THEN "StackOverflow" ELSE "JSException"]

\* module.c: module_exec: the base each exception type is created with
\* (PyErr_NewExceptionWithDoc with base NULL derives from Exception)
tp_base(type) ==
  CASE type = "JSException" -> "Exception"
    [] type = "StackOverflow" -> "Exception"
    [] type = "Exception" -> "BaseException"
    [] OTHER -> "Exception"

\* isinstance(error of type type, cls)
RECURSIVE PyErr_GivenExceptionMatches(_, _)
PyErr_GivenExceptionMatches(type, cls) ==
  IF type = cls THEN TRUE
  ELSE IF type = "BaseException" THEN FALSE
  ELSE PyErr_GivenExceptionMatches(tp_base(type), cls)

\* what is known of the Python error err an unbracketed host operation ends
\* with: a JSException comes from quickjs_exception_to_python on an
\* exception of the engine, any other error has no such origin
ErrInfo(err) ==
  IF err = "JSException" THEN quickjs_exception_to_python("other") ELSE NoInfo

\* the engine is unwinding the script after the interrupt handler said stop
Interrupted == jsRet.tag = "EXCEPTION" /\ jsRet.msg = "interrupted"

\* ------------------------------------------------ operations: enter side
\* module.c: pyjscontext_eval_internal (eval and module), up to JS_Eval
pyjscontext_eval_internal(r, type) ==
  /\ HostOnTop /\ hostRef[r] /\ rtState[r] = "active"
  /\ Len(stack) < MaxDepth
  /\ SetSt(prepare_call_js(St, r))
  /\ stack' = Append(stack, Frame("js", r, type, 0, NULL, <<>>, {}))
  /\ pyErr' = "none"
  /\ pyInfo' = NoInfo
  /\ UNCHANGED <<auxVars, jsRet, rejectedAt, limitVars, gself, lifeVars,
                 foreignPassed>>

\* an engine that runs every pending job in one call
JS_ExecutePendingJob_All(k) == 0

\* The engine's JS_ExecutePendingJob on a list of k jobs: the jobs that are
\* left when it has taken the first one off the list to run it.
JS_ExecutePendingJob(k) == IF k = 0 THEN 0 ELSE k - 1

\* module.c: pyjscontext_execute_pending_job, the value returned for the
\* result ret of JS_ExecutePendingJob (1: a job ran, 0: none was pending,
\* -1: the job ended with an exception)
JobResult(ret) ==
  IF ret > 0 THEN "true" ELSE IF ret = 0 THEN "false" ELSE "error"

\* the host loop under study notes what its call returned
Returned(ret) == IF jobs.loop THEN JobResult(ret) ELSE jobs.ret

\* module.c: pyjscontext_execute_pending_job.  On an empty list
\* JS_ExecutePendingJob returns 0 without running script, and the handler
\* runs from prepare_call_js to Py_RETURN_FALSE in one step; otherwise the
\* first job is taken off the list and its script starts.
pyjscontext_execute_pending_job(r) ==
  /\ HostOnTop /\ hostRef[r] /\ rtState[r] = "active"
  /\ IF jobs.list[r] = 0
     THEN /\ SetSt(end_call_js(prepare_call_js(St, r), r))
          /\ jobs' = [jobs EXCEPT !.ret = Returned(0)]
          /\ UNCHANGED stack
     ELSE /\ Len(stack) < MaxDepth
          /\ SetSt(prepare_call_js(St, r))
          /\ stack' = Append(stack, Frame("js", r, "job", 0, NULL, <<>>, {}))
          /\ jobs' = [jobs EXCEPT !.list[r] = JS_ExecutePendingJob(@)]
  /\ pyErr' = "none"
  /\ pyInfo' = NoInfo
  /\ UNCHANGED <<cv, xv, mt, jsRet, rejectedAt, limitVars, gself, lifeVars,
                 foreignPassed>>

\* module.c: pyjsobject_tp_call, up to JS_Call
pyjsobject_tp_call(h, args, mallocOk) ==
  /\ HostOnTop /\ handles[h].st = "live" /\ handles[h].rt # 0
  /\ \A i \in 1..Len(args) :
        IsH(args[i]) => handles[args[i].h].st = "live"
  /\ LET r == handles[h].rt
         plan == TpCallPlan(r, args)
         nomem == ~plan.reject /\ plan.alloc /\ ~mallocOk
         conv == IF nomem THEN <<>> ELSE plan.conv
         S1 == ConvertAll(St, r, conv, 1)
     IN
     /\ rtState[r] = "active"
     /\ mallocOk \/ (~plan.reject /\ plan.alloc)
     /\ foreignPassed' = (foreignPassed \/
                          \E i \in 1..Len(conv) : IsForeign(r, conv[i]))
     /\ IF plan.reject
        THEN /\ pyErr' = plan.err
             /\ pyInfo' = NoInfo
             /\ SetSt(S1)
             /\ UNCHANGED <<stack, jsRet>>
        ELSE IF nomem
        THEN \* js_malloc failed: quickjs_exception_to_python
             /\ pyErr' = "JSException"
             /\ pyInfo' = quickjs_exception_to_python("OutOfMemory")
             /\ SetSt(S1)
             /\ UNCHANGED <<stack, jsRet>>
        ELSE /\ Len(stack) < MaxDepth
             /\ SetSt(prepare_call_js(S1, r))
             /\ stack' = Append(stack,
                  Frame("js", r, "call", h, handles[h].val, Refs(conv, 1),
                        {conv[i].h : i \in HandleItems(conv)}))
             /\ pyErr' = "none"
             /\ pyInfo' = NoInfo
             /\ UNCHANGED jsRet
     /\ rejectedAt' = IF plan.reject THEN FirstBad(r, args, 1) ELSE rejectedAt
  /\ UNCHANGED <<auxVars, limitVars, gself, lifeVars>>

\* ------------------------------------------------- operations: exit side
\* module.c: the Python error indicator when an operation that ran script
\* returns: raised is the error its exit raises ("none": it returns a
\* value).  js_python_function_call leaves the error of a failed callable or
\* of a failed argument conversion set when it throws into the script, and
\* no exit clears an error: one that the script caught is still set.
PyErr_AfterReturn(err, raised) == IF raised = "none" THEN err ELSE raised

\* module.c: the tail of pyjscontext_eval_internal and pyjsobject_tp_call:
\* JS_FreeValue of the arguments, end_call_js, quickjs_to_python(value)
ScriptReturn(res, allocOk) ==
  /\ ScriptOnTop /\ Top.op \in {"eval", "module", "call"}
  /\ Interrupted => res.tag = "EXCEPTION"
  /\ CanReturn(Top, res)
  /\ allocOk \/ IsObj(res)
  /\ LET f == Top
         r == f.rt
         \* the value JS_Eval / JS_Call returns is an owned reference
         S0 == IF IsObj(res) THEN JS_DupValue(St, r, res.t) ELSE St
         S1 == FreeAll(S0, f.args, 1)
         S2 == end_call_js(S1, r)
         c == Convert(S2, r, res, allocOk)
     IN
     /\ SetSt(c.st)
     /\ handles' = NewHandle(c.plan, r, res)
     /\ refcnt' = [refcnt EXCEPT ![r] = @ + c.plan.incref]
     /\ pyErr' = IF c.plan.exc THEN quickjs_exception_to_python(Pending).type
                 ELSE PyErr_AfterReturn(pyErr, c.plan.err)
     /\ pyInfo' = IF c.plan.exc THEN quickjs_exception_to_python(Pending)
                  ELSE NoInfo
  /\ jsRet' = NoRet
  /\ stack' = Pop
  /\ UNCHANGED <<auxVars, rejectedAt, limitVars, gself, hostRef, rtState, foreignPassed>>

\* module.c: the tail of pyjscontext_execute_pending_job when a job was run;
\* ret is the result of JS_ExecutePendingJob (1: the job ran to its end,
\* -1: it ended with an exception)
JobReturn(ret) ==
  /\ ScriptOnTop /\ Top.op = "job"
  /\ Interrupted => ret < 0
  /\ SetSt(end_call_js(St, Top.rt))
  /\ stack' = Pop
  /\ pyErr' = IF ret < 0 THEN quickjs_exception_to_python(Pending).type
              ELSE PyErr_AfterReturn(pyErr, "none")
  /\ pyInfo' = IF ret < 0 THEN quickjs_exception_to_python(Pending) ELSE NoInfo
  /\ jsRet' = NoRet
  /\ jobs' = [jobs EXCEPT !.ret = Returned(ret)]
  /\ UNCHANGED <<cv, xv, mt, rejectedAt, limitVars, gself, lifeVars,
                 foreignPassed>>

\* the script, or the engine on its behalf, throws e; the script may catch
\* it or end with it
ScriptThrow(e) ==
  /\ ScriptOnTop /\ ~Interrupted
  /\ jsRet' = JS_Throw(e)
  /\ UNCHANGED <<pyErr, pyInfo, stack, auxVars, rejectedAt, limitVars, gself,
                 lifeVars, foreignPassed, brackVars, heapVars>>

\* ------------------------------------------------ script calls into Python
\* a dispatch that never rejects
DispatchRejected_Never(r) == FALSE

\* module.c: js_python_function_call, the has_time_limit test
DispatchRejected(r) == has_time_limit[r]

\* a script value of a tag quickjs_to_python does not know
BigFloat == [tag |-> "BIG_FLOAT", n |-> 0, s |-> <<>>]

\* the script values quickjs_to_python converts
Convertible(v) == quickjs_to_python(v.tag, TRUE).err = "none"

\* the argument tuple in reverse
ArgTuple_Reversed(argv) ==
  [i \in 1..Len(argv) |-> quickjs_to_python_val(argv[Len(argv) + 1 - i])]

\* module.c: js_python_function_call, the loop that fills the tuple:
\* PyTuple_SET_ITEM(args, i, quickjs_to_python(argv[i]))
ArgTuple(argv) == [i \in 1..Len(argv) |-> quickjs_to_python_val(argv[i])]

\* JS_ThrowInternalError after k handles had been made and released
JS_ThrowAfter(msg, k) == [JS_Throw(msg) EXCEPT !.n = k]

\* the first handle not in use among hs
FreeIn(hs) == CHOOSE h \in Handles :
                hs[h].st = "none" /\ \A k \in Handles : hs[k].st = "none" => h <= k

RECURSIVE FillTuple(_, _, _)
\* module.c: js_python_function_call, the loop that fills the tuple, from
\* argv[i] on: arg = quickjs_to_python(JS_DupValue(argv[i])), and break at
\* the first NULL.  c holds the engine state, the handles and the count of
\* the Context so far, the handle made for each converted argument (0: a
\* primitive) and whether all conversions succeeded.
FillTuple(c, argv, i) ==
  IF i > Len(argv) THEN c
  ELSE IF ~Convertible(argv[i]) THEN [c EXCEPT !.ok = FALSE]
  ELSE IF argv[i].tag \in ObjectTags
  THEN LET res == Result(argv[i].tag, argv[i].n)
           cv1 == Convert(JS_DupValue(c.st, c.r, res.t), c.r, res, TRUE)
           h == FreeIn(c.hs)
       IN FillTuple([c EXCEPT !.st = cv1.st,
                              !.hs[h] = [st |-> "live", rt |-> c.r,
                                         val |-> res.t],
                              !.rc = @ + cv1.plan.incref,
                              !.items = Append(@, h),
                              !.made = @ \cup {h}],
                    argv, i + 1)
  ELSE FillTuple([c EXCEPT !.items = Append(@, 0)], argv, i + 1)

RECURSIVE ReleaseHandles(_, _)
\* the tuple's items die with it: pyjsobject_tp_dealloc of each handle
ReleaseHandles(c, hset) ==
  IF hset = {} THEN c
  ELSE LET h == CHOOSE k \in hset : TRUE IN
       ReleaseHandles(
         [c EXCEPT !.st = JS_FreeValue(c.st, c.hs[h].rt, c.hs[h].val),
                   !.hs[h] = [st |-> "none", rt |-> 0, val |-> 0],
                   !.rc = @ - 1],
         hset \ {h})

\* a tuple that is never released
Py_DECREF_args_Leak(c) == c

\* module.c: js_python_function_call, Py_DECREF(args): the tuple is freed and
\* with it every argument converted so far (the callable keeps none)
Py_DECREF_args(c) == ReleaseHandles(c, c.made)

\* the tuple handed to the callable: primitives by value, objects as handles
TupleOf(argv, c) ==
  [i \in 1..Len(argv) |->
     IF argv[i].tag \in ObjectTags THEN Val("Object", c.items[i], <<>>)
     ELSE ArgTuple(argv)[i]]

\* a limit check placed after prepare_call_python
js_python_function_call_rejected_Prepared(S, r) == prepare_call_python(S, r)

\* module.c: js_python_function_call with a time limit configured: it
\* returns the thrown error before prepare_call_python, and touches nothing
js_python_function_call_rejected(S, r) == S

\* module.c: js_python_function_call up to PyObject_CallObject; argv are the
\* arguments of the script call (primitives, or values of a tag that
\* quickjs_to_python rejects), tupleOk tells whether PyTuple_New succeeded
js_python_function_call(n, argv, tupleOk) ==
  /\ ScriptOnTop /\ Reachable(Top, n) /\ ~Interrupted
  /\ \A i \in 1..Len(argv) :
       argv[i].tag \in ObjectTags =>
         (IF argv[i].n = 0 THEN TRUE ELSE Reachable(Top, argv[i].n))
  /\ Cardinality({i \in 1..Len(argv) : argv[i].tag \in ObjectTags})
       <= Cardinality({h \in Handles : handles[h].st = "none"})
  /\ LET r == Top.rt
         c0 == [st |-> prepare_call_python(St, r), r |-> r, hs |-> handles,
                rc |-> refcnt[r], items |-> <<>>, made |-> {}, ok |-> TRUE]
         c == FillTuple(c0, argv, 1)
         d == Py_DECREF_args(c)
     IN
     IF DispatchRejected(r)
     THEN /\ tupleOk
          /\ jsRet' = JS_Throw("TimeLimit")
          /\ SetSt(js_python_function_call_rejected(St, r))
          /\ UNCHANGED <<stack, pyErr, pyInfo, lifeVars>>
     ELSE IF ~tupleOk
     THEN /\ SetSt(end_call_python(prepare_call_python(St, r), r))
          /\ pyErr' = "MemoryError"
          /\ pyInfo' = NoInfo
          /\ jsRet' = JS_Throw("OutOfMemory")
          /\ UNCHANGED <<stack, lifeVars>>
     ELSE IF ~c.ok
     THEN /\ SetSt(end_call_python(d.st, r))
          /\ handles' = d.hs
          /\ refcnt' = [refcnt EXCEPT ![r] = d.rc]
          /\ pyErr' = "TypeError"
          /\ pyInfo' = NoInfo
          /\ jsRet' = JS_ThrowAfter("ConvertArgs", Cardinality(c.made))
          /\ UNCHANGED <<stack, hostRef, rtState>>
     ELSE /\ Len(stack) < MaxDepth
          /\ SetSt(c.st)
          /\ handles' = c.hs
          /\ refcnt' = [refcnt EXCEPT ![r] = c.rc]
          /\ stack' = Append(stack,
                             Frame("py", r, "py", 0, n, TupleOf(argv, c),
                                   c.made))
          /\ jsRet' = NoRet
          /\ UNCHANGED <<pyErr, pyInfo, hostRef, rtState>>
  /\ UNCHANGED <<auxVars, rejectedAt, limitVars, gself, foreignPassed>>

\* the script value of a host result that python_to_quickjs accepts
ResultValue(res) ==
  IF IsH(res)
  THEN [tag |-> "OBJECT", n |-> handles[res.h].val, s |-> <<>>, msg |-> "none"]
  ELSE Ret(python_to_quickjs_val(Val(res.kind, res.h, <<>>), LongBits))

\* function objects of runtime r that are not finalized
LiveFns(S, r) == {n \in Nodes : S.fn[n].st = "live" /\ S.fn[n].rt = r}

\* a teardown that frees the Context without finalizing its objects
pyjscontext_tp_dealloc_NoFinalize(S, r) == S

\* module.c: pyjscontext_tp_dealloc: JS_FreeContext and JS_FreeRuntime
\* finalize every function object that is left
pyjscontext_tp_dealloc(S, r) == FinalizeAll(S, LiveFns(S, r))

\* Py_DECREF of a _quickjs.Context: the count after it, and the state after
\* tp_dealloc when the count reached zero
AfterDecref(S, r) == IF refcnt[r] = 1 THEN pyjscontext_tp_dealloc(S, r) ELSE S
TornBy(r) == IF refcnt[r] = 1 THEN [rtState EXCEPT ![r] = "torn"] ELSE rtState

\* a handle that a frame of the stack still uses (self or an argument)
InUse(h) == \E i \in 1..Len(stack) : stack[i].self = h \/ h \in stack[i].argh

\* a dispatch that leaves the error of the failed test pending
PyErr_Clear_Skip(err) == err

\* module.c: js_python_function_call, PyErr_Clear() after
\* python_to_quickjs_possible has refused the result with the error err
PyErr_Clear(err) == "none"

\* module.c: js_python_function_call from the return of the callable on:
\* res is Raise or the value the callable returned; last tells that the
\* value is a handle to which the callable returns the only reference
PyReturnWith(res, last) ==
  /\ stack # <<>> /\ Top.kind = "py"
  /\ IsH(res) => (handles[res.h].st = "live" /\ res.h \notin Top.argh)
  /\ last => (IsH(res) /\ ~InUse(res.h))
  /\ LET r == Top.rt
         \* Py_DECREF(args)
         d == Py_DECREF_args([st |-> St, r |-> r, hs |-> handles,
                              rc |-> refcnt[r], items |-> <<>>,
                              made |-> Top.argh, ok |-> TRUE])
         rc1 == [refcnt EXCEPT ![r] = d.rc]
         possible == IF res = Raise THEN "raise"
                     ELSE python_to_quickjs_possible(r, res)
         ok == possible = "ok"
         S1 == IF ok THEN python_to_quickjs(d.st, r, res) ELSE d.st
         \* Py_DECREF(result): pyjsobject_tp_dealloc of a handle that nothing
         \* else refers to, and the teardown of its Context with it
         hr == IF last THEN handles[res.h].rt ELSE r
         torn == last /\ rc1[hr] = 1
         F == IF last THEN JS_FreeValue(S1, hr, handles[res.h].val) ELSE S1
         S1b == IF torn THEN pyjscontext_tp_dealloc(F, hr) ELSE F
         S2 == end_call_python(S1b, r)
         \* the script drops the returned value when it is done with it
         S3 == IF ok /\ IsH(res)
               THEN JS_FreeValue(S2, handles[res.h].rt, handles[res.h].val)
               ELSE S2
     IN
     /\ SetSt(S3)
     /\ handles' = IF last
                   THEN [d.hs EXCEPT ![res.h] = [st |-> "none", rt |-> 0,
                                                 val |-> 0]]
                   ELSE d.hs
     /\ refcnt' = IF last THEN [rc1 EXCEPT ![hr] = @ - 1] ELSE rc1
     /\ rtState' = IF torn THEN [rtState EXCEPT ![hr] = "torn"] ELSE rtState
     /\ foreignPassed' = (foreignPassed \/ (ok /\ IsForeign(r, res)))
     /\ pyErr' = IF res = Raise THEN "HostError"
                 ELSE IF ok THEN "none"
                 ELSE PyErr_Clear(possible)
     /\ jsRet' = IF res = Raise THEN JS_Throw("PythonCallFailed")
                 ELSE IF ok THEN ResultValue(res)
                 ELSE JS_ThrowAfter("ConvertResult", IF last THEN 1 ELSE 0)
     /\ pyInfo' = NoInfo
  /\ stack' = Pop
  /\ UNCHANGED <<auxVars, rejectedAt, limitVars, gself, hostRef>>

\* the callable keeps a reference to what it returns, or returns a value
\* that is no handle
PyReturn(res) == PyReturnWith(res, FALSE)

\* the callable returns the only reference to a handle
PyReturnLast(res) == PyReturnWith(res, TRUE)

\* --------------------------------------------------- what a script does
\* A script that goes on after a dispatch has used the value the dispatch
\* returned, or caught the exception it threw.
\* The script deletes the global that names function object n.
ScriptDropGlobal(n) ==
  /\ ScriptOnTop /\ fn[n].st = "live" /\ fn[n].rt = Top.rt /\ fn[n].global
  /\ ~Interrupted
  /\ SetSt(JS_FreeValue([St EXCEPT !.fn[n].global = FALSE], Top.rt, n))
  /\ jsRet' = NoRet
  /\ UNCHANGED <<auxVars, pyInfo, rejectedAt, limitVars, gself, lifeVars,
                 stack, pyErr, foreignPassed>>

\* The script stores function object n in a property of itself (f.me = f).
ScriptMakeCycle(n) ==
  /\ ScriptOnTop /\ Reachable(Top, n) /\ ~fn[n].cyc /\ ~Interrupted
  /\ SetSt(JS_DupValue([St EXCEPT !.fn[n].cyc = TRUE], Top.rt, n))
  /\ jsRet' = NoRet
  /\ UNCHANGED <<auxVars, pyInfo, rejectedAt, limitVars, gself, lifeVars,
                 stack, pyErr, foreignPassed>>

\* An allocation of the running script triggers the engine's collector.
ScriptGC ==
  /\ ScriptOnTop /\ Garbage(St, Top.rt) # {} /\ ~Interrupted
  /\ SetSt(JS_RunGC(St, Top.rt))
  /\ jsRet' = NoRet
  /\ UNCHANGED <<auxVars, pyInfo, rejectedAt, limitVars, gself, lifeVars,
                 stack, pyErr, foreignPassed>>

\* The running script resolves a promise or schedules a continuation: the
\* engine appends a job to the list of its runtime.  A list holds at most
\* MaxJobs jobs, and at most MaxJobs are enqueued while the host drains.
ScriptEnqueueJob ==
  /\ ScriptOnTop /\ ~Interrupted
  /\ jobs.list[Top.rt] < MaxJobs
  /\ jobs.loop => jobs.made < MaxJobs
  /\ jobs' = [jobs EXCEPT !.list[Top.rt] = @ + 1,
                          !.made = IF jobs.loop THEN @ + 1 ELSE @]
  /\ jsRet' = NoRet
  /\ UNCHANGED <<cv, xv, mt, pyInfo, rejectedAt, limitVars, brackVars,
                 heapVars, gself, lifeVars, stack, pyErr, foreignPassed>>

\* ------------------------------------------------------- the time limit
\* an interrupt handler that never stops the script
js_interrupt_handler_Never(r) == FALSE

\* module.c: js_interrupt_handler: clock() - data->start >= data->limit
js_interrupt_handler(r) ==
  interrupt_data[r].elapsed >= interrupt_data[r].limit

\* The engine polls the registered handler while the script of the Context
\* runs; on a nonzero result it throws an exception no script can catch.
js_poll_interrupts(r) ==
  /\ ScriptOnTop /\ Top.rt = r /\ interrupt_handler[r] /\ ~Interrupted
  /\ js_interrupt_handler(r)
  /\ jsRet' = JS_Throw("interrupted")
  /\ UNCHANGED <<auxVars, pyInfo, rejectedAt, limitVars, brackVars, heapVars,
                 gself, lifeVars, stack, pyErr, foreignPassed>>

\* clock() advances by one tick, as seen by every registered handler; the
\* count stops at MaxLimit, past every limit
Tick ==
  /\ \E r \in Rts : interrupt_handler[r] /\ interrupt_data[r].elapsed < MaxLimit
  /\ interrupt_data' =
       [r \in Rts |->
          IF interrupt_handler[r] /\ interrupt_data[r].elapsed < MaxLimit
          THEN [interrupt_data[r] EXCEPT !.elapsed = @ + 1]
          ELSE interrupt_data[r]]
  /\ UNCHANGED <<auxVars, excVars, rejectedAt, limitVars, thread_state,
                 interrupt_handler, gil, violated, heapVars, gself, lifeVars,
                 stack, pyErr, foreignPassed>>

\* ------------------------------------------- unbracketed host operations
HostOp(r) == HostOnTop /\ hostRef[r] /\ rtState[r] = "active"

\* module.c: pyjscontext_gc
pyjscontext_gc(r) ==
  /\ HostOp(r)
  /\ SetSt(JS_RunGC(St, r))
  /\ pyErr' = "none"
  /\ pyInfo' = ErrInfo(pyErr')
  /\ UNCHANGED <<auxVars, jsRet, rejectedAt, limitVars, gself, lifeVars, stack, foreignPassed>>

\* module.c: pyjscontext_parse_json.  Py_BEGIN_ALLOW_THREADS releases the
\* GIL without touching thread_state; doGc: an allocation inside
\* JS_ParseJSON triggers the collector; ok: the text is valid JSON (its
\* value is a primitive here, a parsed object being new and unshared).
pyjscontext_parse_json(r, doGc, ok) ==
  /\ HostOp(r)
  /\ doGc => Garbage(St, r) # {}
  /\ LET S1 == [St EXCEPT !.gil = FALSE]
         S2 == IF doGc THEN JS_RunGC(S1, r) ELSE S1
         S3 == [S2 EXCEPT !.gil = TRUE]
         c == Convert(S3, r, Result(IF ok THEN "INT" ELSE "EXCEPTION", 0), TRUE)
     IN /\ SetSt(c.st)
        /\ pyErr' = c.plan.err
  /\ pyInfo' = ErrInfo(pyErr')
  /\ UNCHANGED <<auxVars, jsRet, rejectedAt, limitVars, gself, lifeVars, stack, foreignPassed>>

GlobalFns(r) == {n \in Nodes : fn[n].st = "live" /\ fn[n].rt = r /\ fn[n].global}

\* module.c: pyjscontext_get (and pyjscontext_global_this for target 0):
\* JS_GetPropertyStr returns a new reference, quickjs_to_python consumes it
pyjscontext_get(r, res, allocOk) ==
  /\ HostOp(r)
  /\ res.tag # "EXCEPTION"
  /\ IsObj(res) => /\ res.t \in GlobalFns(r) \cup {0}
                   /\ \E h \in Handles : handles[h].st = "none"
  /\ allocOk \/ IsObj(res)
  /\ LET S0 == IF IsObj(res) THEN JS_DupValue(St, r, res.t) ELSE St
         c == Convert(S0, r, res, allocOk)
     IN /\ SetSt(c.st)
        /\ handles' = NewHandle(c.plan, r, res)
        /\ refcnt' = [refcnt EXCEPT ![r] = @ + c.plan.incref]
        /\ pyErr' = c.plan.err
  /\ pyInfo' = ErrInfo(pyErr')
  /\ UNCHANGED <<auxVars, jsRet, rejectedAt, limitVars, gself, hostRef, rtState, stack, foreignPassed>>

\* JS_SetPropertyStr(ctx, global, name, v): takes over the reference to v
\* (t: its target, -1 for a primitive), releases the value d that the name
\* held before (-1: none); on failure v is released instead
JS_SetPropertyStr(S, r, t, d, ok) ==
  LET S1 == IF ok /\ d > 0 THEN [S EXCEPT !.fn[d].global = FALSE] ELSE S
      S2 == IF ok /\ t > 0 THEN [S1 EXCEPT !.fn[t].global = TRUE] ELSE S1
      S3 == IF ok /\ d >= 0 THEN JS_FreeValue(S2, r, d) ELSE S2
  IN IF ~ok /\ t >= 0 THEN JS_FreeValue(S3, r, t) ELSE S3

\* The global names a script or the host can overwrite, by the value held:
\* -1 a fresh name or a primitive, 0 the global object, n function object n
Displaced(r) == {-1} \cup GlobalFns(r) \cup (IF gself[r] THEN {0} ELSE {})

\* module.c: pyjscontext_set
pyjscontext_set(r, item, d, ok) ==
  /\ HostOp(r)
  /\ IsH(item) => handles[item.h].st = "live"
  /\ d \in Displaced(r)
  /\ LET possible == python_to_quickjs_possible(r, item)
         t == IF IsH(item) THEN handles[item.h].val ELSE -1
     IN
     \* one global name per shared object in the model
     /\ (possible = "ok" /\ t > 0 /\ fn[t].global) => d = t
     /\ (possible = "ok" /\ t = 0 /\ gself[r]) => d = 0
     /\ IF possible = "ok"
        THEN /\ SetSt(JS_SetPropertyStr(python_to_quickjs(St, r, item),
                                        r, t, d, ok))
             /\ gself' = [gself EXCEPT ![r] =
                            IF ok THEN (t = 0 \/ (@ /\ d # 0)) ELSE @]
             /\ pyErr' = IF ok THEN "none" ELSE "TypeError"
             /\ foreignPassed' = (foreignPassed \/ IsForeign(r, item))
        ELSE /\ ok /\ d = -1
             /\ pyErr' = possible
             /\ UNCHANGED <<brackVars, heapVars, gself, foreignPassed>>
  /\ pyInfo' = ErrInfo(pyErr')
  /\ UNCHANGED <<auxVars, jsRet, rejectedAt, limitVars, lifeVars, stack>>

\* module.c: pyjscontext_set_time_limit; v is the kind of argument given,
\* ticks is (clock_t)(limit * CLOCKS_PER_SEC) of a non-negative one
pyjscontext_set_time_limit(r, v, ticks) ==
  /\ HostOp(r)
  /\ IF v = "nonfloat"
     THEN pyErr' = "TypeError" /\ UNCHANGED limitVars
     ELSE /\ has_time_limit' = [has_time_limit EXCEPT ![r] = (v = "nonneg")]
          /\ time_limit' = [time_limit EXCEPT ![r] =
                              IF v = "nonneg" THEN ticks ELSE @]
          /\ pyErr' = "none"
  /\ pyInfo' = ErrInfo(pyErr')
  /\ UNCHANGED <<auxVars, jsRet, rejectedAt, brackVars, heapVars, gself, lifeVars, stack, foreignPassed>>

\* module.c: pyjscontext_add_callable, the new node n put at the head of
\* the list of Context r: obj, prev, next, the prev of the old head, and
\* python_callables
PythonCallableNode_link(S, r, n) ==
  LET old == S.head[r]
      n1 == [S.node EXCEPT ![n] = [st |-> "linked", rt |-> r, obj |-> 1,
                                   prev |-> NULL, next |-> old]]
  IN [node |-> IF old # NULL THEN [n1 EXCEPT ![old].prev = n] ELSE n1,
      head |-> [S.head EXCEPT ![r] = n]]

\* module.c: pyjscontext_add_callable from JS_NewObjectClass to
\* JS_SetOpaque: the function object n with one reference, Py_INCREF of the
\* callable, its node linked at the head and stored as the opaque
JS_NewObjectClass_function(S, r, n) ==
  LET lk == PythonCallableNode_link(S, r, n) IN
  [S EXCEPT !.node = lk.node, !.head = lk.head,
            !.mut = (S.mut /\ S.gil),
            !.fn[n] = [st |-> "live", rt |-> r, global |-> FALSE,
                       cyc |-> FALSE, rc |-> 1, opaque |-> n]]

FreeNode == CHOOSE n \in Nodes : node[n].st = "unalloc" /\
              \A k \in Nodes : node[k].st = "unalloc" => n <= k

\* module.c: pyjscontext_add_callable.  how: "ok", or the step that fails:
\* "notcallable" (PyCallable_Check), "newobj" (JS_NewObjectClass),
\* "malloc" (PyMem_Malloc), "global" (JS_GetGlobalObject), "setprop"
\* (JS_SetPropertyStr).  d: the value the name held before.
AddHow == {"ok", "notcallable", "newobj", "malloc", "global", "setprop"}

pyjscontext_add_callable(r, how, d) ==
  /\ HostOp(r)
  /\ d \in Displaced(r)
  /\ IF how \in {"notcallable", "newobj", "malloc"}
     THEN /\ d = -1
          /\ pyErr' = CASE how = "notcallable" -> "TypeError"
                        [] how = "newobj" -> "JSException"
                        [] OTHER -> "unset"
          /\ UNCHANGED <<brackVars, heapVars, gself>>
     ELSE /\ \E n \in Nodes : node[n].st = "unalloc"
          /\ LET n == FreeNode
                 S1 == JS_NewObjectClass_function(St, r, n)
             IN IF how = "global"
                THEN /\ d = -1
                     /\ SetSt(JS_FreeValue(S1, r, n))
                     /\ pyErr' = "JSException"
                     /\ UNCHANGED gself
                ELSE /\ SetSt(JS_SetPropertyStr(S1, r, n, d, how = "ok"))
                     /\ gself' = [gself EXCEPT ![r] =
                                    IF how = "ok" THEN @ /\ d # 0 ELSE @]
                     /\ pyErr' = IF how = "ok" THEN "none" ELSE "TypeError"
  /\ pyInfo' = ErrInfo(pyErr')
  /\ UNCHANGED <<auxVars, jsRet, rejectedAt, limitVars, lifeVars, stack, foreignPassed>>

\* ------------------------------ host operations that reach script code
\* The property read, written or serialised is an accessor or has a toJSON
\* method defined by a script: the engine runs that script inside
\* JS_GetPropertyStr, JS_SetPropertyStr or JS_JSONStringify.

\* module.c: pyjscontext_get, up to the getter run by JS_GetPropertyStr
pyjscontext_get_getter(r) ==
  /\ HostOp(r) /\ Len(stack) < MaxDepth
  /\ SetSt(JS_DupValue(St, r, 0))
  /\ stack' = Append(stack, Frame("js", r, "get", 0, NULL, <<>>, {}))
  /\ pyErr' = "none"
  /\ pyInfo' = NoInfo
  /\ UNCHANGED <<auxVars, jsRet, rejectedAt, limitVars, gself, lifeVars,
                 foreignPassed>>

\* module.c: pyjscontext_set of a primitive, up to the setter run by
\* JS_SetPropertyStr
pyjscontext_set_setter(r) ==
  /\ HostOp(r) /\ Len(stack) < MaxDepth
  /\ SetSt(JS_DupValue(St, r, 0))
  /\ stack' = Append(stack, Frame("js", r, "set", 0, NULL, <<>>, {}))
  /\ pyErr' = "none"
  /\ pyInfo' = NoInfo
  /\ UNCHANGED <<auxVars, jsRet, rejectedAt, limitVars, gself, lifeVars,
                 foreignPassed>>

\* module.c: pyjscontext_add_callable under a name for which a script has
\* defined a setter on the global object, up to the setter run by
\* JS_SetPropertyStr with the new function object as its argument
pyjscontext_add_callable_setter(r) ==
  /\ HostOp(r) /\ Len(stack) < MaxDepth
  /\ \E n \in Nodes : node[n].st = "unalloc"
  /\ LET n == FreeNode IN
     /\ SetSt(JS_DupValue(JS_NewObjectClass_function(St, r, n), r, 0))
     /\ stack' = Append(stack, Frame("js", r, "add", 0, n, <<>>, {}))
  /\ pyErr' = "none"
  /\ pyInfo' = NoInfo
  /\ UNCHANGED <<auxVars, jsRet, rejectedAt, limitVars, gself, lifeVars,
                 foreignPassed>>

\* The script stores function object n, which it can name, in a global
\* variable (keep = v).
ScriptKeep(n) ==
  /\ ScriptOnTop /\ Reachable(Top, n) /\ ~fn[n].global /\ ~Interrupted
  /\ SetSt(JS_DupValue([St EXCEPT !.fn[n].global = TRUE], Top.rt, n))
  /\ jsRet' = NoRet
  /\ UNCHANGED <<auxVars, pyInfo, rejectedAt, limitVars, gself, lifeVars,
                 stack, pyErr, foreignPassed>>

\* module.c: pyjsobject_json, up to the toJSON run by JS_JSONStringify
pyjsobject_json(h) ==
  /\ HostOnTop /\ handles[h].st = "live" /\ handles[h].rt # 0
  /\ rtState[handles[h].rt] = "active"
  /\ Len(stack) < MaxDepth
  /\ stack' = Append(stack, Frame("js", handles[h].rt, "json", h,
                                  handles[h].val, <<>>, {}))
  /\ pyErr' = "none"
  /\ pyInfo' = NoInfo
  /\ UNCHANGED <<auxVars, jsRet, rejectedAt, limitVars, gself, lifeVars,
                 foreignPassed, brackVars, heapVars>>

\* module.c: the tails of pyjscontext_get, pyjscontext_set,
\* pyjscontext_add_callable and pyjsobject_json.  thrown: the script ended
\* with an exception.  The setter called for add_callable has returned:
\* the engine releases the value it was called with (the function object)
AccessorReturn(thrown) ==
  /\ ScriptOnTop /\ Top.op \in {"get", "set", "json", "add"}
  /\ LET f == Top
         S1 == IF f.op = "add" THEN JS_FreeValue(St, f.rt, f.callee) ELSE St
     IN
     /\ SetSt(IF f.op = "json" THEN S1 ELSE JS_FreeValue(S1, f.rt, 0))
     /\ pyErr' = IF ~thrown THEN PyErr_AfterReturn(pyErr, "none")
                 ELSE IF f.op \in {"set", "add"} THEN "TypeError"
                 ELSE quickjs_exception_to_python(Pending).type
     /\ pyInfo' = IF thrown /\ f.op \notin {"set", "add"}
                  THEN quickjs_exception_to_python(Pending) ELSE NoInfo
  /\ jsRet' = NoRet
  /\ stack' = Pop
  /\ UNCHANGED <<auxVars, rejectedAt, limitVars, gself, lifeVars,
                 foreignPassed>>

\* ------------------------------------------------------------ lifetimes
\* module.c: pyjsobject_tp_dealloc, Py_CLEAR(self->runtime_data): the
\* Context loses a reference and is torn down when it was the last; owns
\* tells that the handle still owns its engine value at that point, which
\* JS_FreeRuntime must never meet
Py_CLEAR_runtime_data(S, r, owns) ==
  [AfterDecref(S, r) EXCEPT
     !.vio = Fail(S, owns /\ refcnt[r] = 1, "teardown_owning_value")]

\* a destruction that lets go of the Context before the engine value
pyjsobject_tp_dealloc_release_RuntimeFirst(S, r, val) ==
  IF r = 0 THEN S
  ELSE JS_FreeValue(Py_CLEAR_runtime_data(S, r, TRUE), r, val)

\* module.c: pyjsobject_tp_dealloc, the body under if (self->runtime_data):
\* JS_FreeValue(self->object), then Py_CLEAR(self->runtime_data); r = 0 is
\* a handle whose runtime_data is NULL
pyjsobject_tp_dealloc_release(S, r, val) ==
  IF r = 0 THEN S
  ELSE Py_CLEAR_runtime_data(JS_FreeValue(S, r, val), r, FALSE)

\* module.c: pyjsobject_tp_dealloc, the host dropping its last reference
pyjsobject_tp_dealloc(h) ==
  /\ HostOnTop /\ handles[h].st = "live" /\ ~InUse(h)
  /\ LET r == handles[h].rt IN
     /\ SetSt(pyjsobject_tp_dealloc_release(St, r, handles[h].val))
     /\ refcnt' = IF r = 0 THEN refcnt ELSE [refcnt EXCEPT ![r] = @ - 1]
     /\ rtState' = IF r = 0 THEN rtState ELSE TornBy(r)
  /\ handles' = [handles EXCEPT ![h] = [st |-> "none", rt |-> 0, val |-> 0]]
  /\ UNCHANGED <<auxVars, excVars, rejectedAt, limitVars, gself, hostRef, stack, pyErr, foreignPassed>>

\* module.c: pyjsobject_tp_new, the host instantiating _quickjs.Object by
\* itself: a handle whose runtime_data is NULL
pyjsobject_tp_new(h) ==
  /\ HostOnTop /\ handles[h].st = "none"
  /\ handles' = [handles EXCEPT ![h] = [st |-> "live", rt |-> 0, val |-> 0]]
  /\ UNCHANGED <<auxVars, excVars, rejectedAt, limitVars, gself, brackVars,
                 heapVars, refcnt, hostRef, rtState, stack, pyErr,
                 foreignPassed>>

\* The host drops its own reference to the Context (del ctx); no call on
\* the Context is in progress, a call holding a reference to its self.
DropContext(r) ==
  /\ HostOnTop /\ hostRef[r] /\ ~InStack(r)
  /\ hostRef' = [hostRef EXCEPT ![r] = FALSE]
  /\ SetSt(AfterDecref(St, r))
  /\ refcnt' = [refcnt EXCEPT ![r] = @ - 1]
  /\ rtState' = TornBy(r)
  /\ UNCHANGED <<auxVars, excVars, rejectedAt, limitVars, gself, handles, stack, pyErr, foreignPassed>>

\* Py_DECREF in place of Py_CLEAR: the entry keeps the pointer
Py_CLEAR_obj_Decref(S, nd) ==
  [S EXCEPT !.rel[nd] = @ + 1, !.mut = (S.mut /\ S.gil)]

\* module.c: pyjscontext_tp_clear, Py_CLEAR(node->obj) on a callable that is
\* there: the entry is set to NULL and the callable released
Py_CLEAR_obj(S, nd) ==
  [S EXCEPT !.rel[nd] = @ + 1, !.node[nd].obj = NULL,
            !.mut = (S.mut /\ S.gil)]

RECURSIVE ClearFrom(_, _, _)
\* module.c: the loop of pyjscontext_tp_clear, from node nd on
ClearFrom(S, nd, fuel) ==
  IF nd = NULL \/ fuel = 0 THEN S
  ELSE LET S1 == IF S.node[nd].obj # NULL THEN Py_CLEAR_obj(S, nd) ELSE S
       IN ClearFrom(S1, S.node[nd].next, fuel - 1)

\* module.c: pyjscontext_tp_clear, called by Python's cycle collector on a
\* Context that only a cycle through its callables keeps alive
pyjscontext_tp_clear(r) ==
  /\ HostOnTop /\ rtState[r] = "active" /\ ~hostRef[r] /\ ~InStack(r)
  /\ python_callables[r] # NULL
  /\ SetSt(ClearFrom(St, python_callables[r], MaxNodes + 1))
  /\ rtState' = [rtState EXCEPT ![r] = "cleared"]
  /\ UNCHANGED <<auxVars, excVars, rejectedAt, limitVars, gself, handles, refcnt, hostRef, stack, pyErr,
                 foreignPassed>>

\* ------------------------------------------------------- specifications
A == 1   \* the Context most scenarios run on
B == 2   \* a second Context, the source of foreign handles

\* The bracket on one Context: nested evaluations, calls, pending jobs,
\* Python callables that re-enter the Context, time limits set at any host
\* point, finalizers run by scripts and by the collector.
NextBracket ==
  \/ \E type \in {"eval", "module"} : pyjscontext_eval_internal(A, type)
  \/ pyjscontext_execute_pending_job(A)
  \/ \E h \in Handles : pyjsobject_tp_call(h, <<>>, TRUE)
  \/ \E res \in Results, allocOk \in BOOLEAN : ScriptReturn(res, allocOk)
  \/ jobs.list[A] = 0 /\ ScriptEnqueueJob
  \/ \E ret \in {-1, 1} : JobReturn(ret)
  \/ \E n \in Nodes, argv \in {<<>>, <<BigFloat>>} :
        js_python_function_call(n, argv, TRUE)
  \/ \E res \in {Item("int", 0), Raise} : PyReturn(res)
  \/ \E v \in {"nonfloat", "neg", "nonneg"} : pyjscontext_set_time_limit(A, v, 0)
  \/ pyjscontext_add_callable(A, "ok", -1)
  \/ \E n \in Nodes : ScriptDropGlobal(n)
  \/ \E n \in Nodes : ScriptMakeCycle(n)
  \/ ScriptGC
  \/ pyjscontext_gc(A)

SpecBracket == Init /\ [][NextBracket]_vars

\* The registry and the lifetimes on one Context: registration, globals
\* overwritten by set, scripts that drop or cycle function objects, the
\* collector run by scripts, gc and parse_json, handles made and dropped,
\* the host dropping the Context, Python's cycle collector clearing it.
NextHeap ==
  \/ \E how \in AddHow, d \in Targets \cup {-1} :
        pyjscontext_add_callable(A, how, d)
  \/ \E item \in {Item("int", 0)} \cup {Item("Object", h) : h \in Handles},
        d \in Targets \cup {-1}, ok \in BOOLEAN :
        pyjscontext_set(A, item, d, ok)
  \/ pyjscontext_eval_internal(A, "eval")
  \/ \E n \in Nodes : ScriptDropGlobal(n)
  \/ \E n \in Nodes : ScriptMakeCycle(n)
  \/ ScriptGC
  \/ \E res \in Results, allocOk \in BOOLEAN : ScriptReturn(res, allocOk)
  \/ pyjscontext_gc(A)
  \/ \E doGc \in BOOLEAN, ok \in BOOLEAN : pyjscontext_parse_json(A, doGc, ok)
  \/ \E res \in Results, allocOk \in BOOLEAN : pyjscontext_get(A, res, allocOk)
  \/ \E h \in Handles : pyjsobject_tp_dealloc(h)
  \/ DropContext(A)
  \/ pyjscontext_tp_clear(A)

SpecHeap == Init /\ [][NextHeap]_vars

\* quickjs_to_python by itself, on one engine value of any tag and any
\* reference count, with and without memory for the handle.
MaxRc == 4
ConvTags == {"INT", "BIG_INT", "BOOL", "NULL", "UNDEFINED", "EXCEPTION",
             "FLOAT64", "STRING", "OBJECT", "MODULE", "SYMBOL",
             "UNINITIALIZED", "BIG_FLOAT", "CATCH_OFFSET"}

\* the engine's number of each tag (quickjs.h, enum JS_TAG_*)
JS_TAG(tag) ==
  CASE tag = "BIG_DECIMAL" -> 0 - 11
    [] tag = "BIG_INT" -> 0 - 10
    [] tag = "BIG_FLOAT" -> 0 - 9
    [] tag = "SYMBOL" -> 0 - 8
    [] tag = "STRING" -> 0 - 7
    [] tag = "MODULE" -> 0 - 3
    [] tag = "OBJECT" -> 0 - 1
    [] tag = "INT" -> 0
    [] tag = "BOOL" -> 1
    [] tag = "NULL" -> 2
    [] tag = "UNDEFINED" -> 3
    [] tag = "UNINITIALIZED" -> 4
    [] tag = "CATCH_OFFSET" -> 5
    [] tag = "EXCEPTION" -> 6
    [] tag = "FLOAT64" -> 7

\* the payloads a value of each tag is tried with
Payloads(tag) ==
  CASE tag = "INT" ->
         {[n |-> v, s |-> <<>>] :
            v \in {0 - Pow2(EngineIntBits - 1), 0, Pow2(EngineIntBits - 1) - 1}}
    [] tag = "BIG_INT" ->
         {[n |-> v, s |-> <<>>] : v \in {0 - 12, 0, Pow2(LongBits)}}
    [] tag = "BOOL" -> {[n |-> v, s |-> <<>>] : v \in {0, 1}}
    [] tag = "FLOAT64" -> {[n |-> v, s |-> <<>>] : v \in {0 - MaxHalf, 1}}
    [] tag = "STRING" -> {[n |-> 0, s |-> str] : str \in {<<>>, <<1, 2>>, <<1, 0>>}}
    [] OTHER -> {[n |-> 0, s |-> <<>>]}

InitConv ==
  /\ InitBridge /\ rejectedAt = 0 /\ xv = NoValue /\ mt = NoThreads
  /\ jobs = NoJobs
  /\ \E tag \in ConvTags, rc \in 1..MaxRc, r \in Rts :
       \E pl \in Payloads(tag) :
         cv = [tag |-> tag, rc0 |-> rc, rc |-> rc, held |-> 0, frees |-> 0,
               ret |-> "NULL", err |-> "none", done |-> FALSE,
               r |-> r, js |-> [tag |-> tag, n |-> pl.n, s |-> pl.s],
               out |-> Val("NULL", 0, <<>>), owner |-> 0, exc |-> FALSE,
               named |-> <<>>]

\* module.c: quickjs_to_python(runtime_data, value) on the value cv.js, with
\* cv.r for runtime_data: the counts of the input, the value returned, the
\* Context a handle is paired with, whether the pending exception was
\* translated, and the tag number that the TypeError names
ConvApply(allocOk) ==
  /\ ~cv.done
  /\ allocOk \/ cv.tag \in ObjectTags
  /\ LET plan == quickjs_to_python(cv.tag, allocOk) IN
     cv' = [cv EXCEPT !.rc = @ + plan.dup - plan.free, !.held = plan.dup,
                      !.frees = plan.free, !.ret = plan.ret,
                      !.err = plan.err, !.done = TRUE,
                      !.out = IF plan.ret \in {"NULL", "Object"}
                              THEN Val(plan.ret, 0, <<>>)
                              ELSE quickjs_to_python_val(cv.js),
                      !.owner = IF plan.handle THEN cv.r ELSE 0,
                      !.exc = plan.exc,
                      !.named = IF plan.err = "TypeError"
                                THEN <<JS_TAG(cv.tag)>> ELSE <<>>]
  /\ UNCHANGED <<limitVars, brackVars, heapVars, gself, lifeVars, stack,
                 pyErr, foreignPassed, rejectedAt, xv, mt, jobs, excVars>>

\* module.c: pyjsobject_tp_dealloc of the handle made: JS_FreeValue
ConvDropHandle ==
  /\ cv.done /\ cv.ret = "Object"
  /\ cv' = [cv EXCEPT !.rc = @ - cv.held, !.held = 0, !.ret = "dropped"]
  /\ UNCHANGED <<limitVars, brackVars, heapVars, gself, lifeVars, stack,
                 pyErr, foreignPassed, rejectedAt, xv, mt, jobs, excVars>>

NextConv ==
  \/ \E allocOk \in BOOLEAN : ConvApply(allocOk)
  \/ ConvDropHandle

SpecConv == InitConv /\ [][NextConv]_vars

\* ------------------------------------------------- registrations
\* Registrations that succeed, that fail at each step, and that meet a
\* setter a script has defined for the name; scripts that keep, drop and
\* call the functions they can name.
NextAdd ==
  \/ \E how \in AddHow, d \in Targets \cup {-1} :
        pyjscontext_add_callable(A, how, d)
  \/ pyjscontext_add_callable_setter(A)
  \/ \E n \in Nodes : ScriptKeep(n)
  \/ \E n \in Nodes : ScriptDropGlobal(n)
  \/ \E n \in Nodes : ScriptMakeCycle(n)
  \/ \E thrown \in BOOLEAN : AccessorReturn(thrown)
  \/ pyjscontext_eval_internal(A, "eval")
  \/ \E res \in {Result("INT", 0), Result("EXCEPTION", 0)} :
        ScriptReturn(res, TRUE)
  \/ \E t \in Targets : pyjscontext_get(A, Result("OBJECT", t), TRUE)
  \/ \E h \in Handles : pyjsobject_tp_dealloc(h)
  \/ pyjscontext_gc(A)

SpecAdd == Init /\ [][NextAdd]_vars

\* ------------------------------------------------- the list by itself
\* The registry as a data structure: nodes are linked by add_callable and
\* unlinked by the finalizer in any order, on lists of up to MaxRegistry
\* nodes; PyMem_Malloc may hand out the memory of a freed node again.
MaxRegistry == 3
RegNodes == 1..MaxRegistry

InitRegistry ==
  /\ InitBridge /\ rejectedAt = 0 /\ xv = NoValue /\ mt = NoThreads
  /\ jobs = NoJobs
  /\ cv = [node |-> [n \in RegNodes |->
                       [st |-> "unalloc", rt |-> 0, obj |-> NULL,
                        prev |-> NULL, next |-> NULL]],
           head |-> [r \in Rts |-> NULL], last |-> "none"]

\* module.c: pyjscontext_add_callable on Context r, PyMem_Malloc giving n
RegistryAdd(r, n) ==
  /\ cv.node[n].st \in {"unalloc", "freed"}
  /\ LET lk == PythonCallableNode_link(cv, r, n) IN
     cv' = [cv EXCEPT !.node = lk.node, !.head = lk.head, !.last = "add"]
  /\ UNCHANGED <<limitVars, brackVars, heapVars, gself, lifeVars, stack,
                 pyErr, foreignPassed, rejectedAt, xv, mt, jobs, excVars>>

\* module.c: js_python_function_finalizer on the function object whose
\* opaque is node n; where tells the place of the node on its list
RegistryFinalize(n) ==
  /\ cv.node[n].st = "linked"
  /\ LET un == PythonCallableNode_unlink(cv, n)
         where == IF cv.node[n].prev = NULL
                  THEN (IF cv.node[n].next = NULL THEN "only" ELSE "head")
                  ELSE (IF cv.node[n].next = NULL THEN "tail" ELSE "middle")
     IN cv' = [cv EXCEPT !.node = [un.node EXCEPT ![n] = FreedNode(cv.node[n].rt)],
                         !.head = un.head, !.last = where]
  /\ UNCHANGED <<limitVars, brackVars, heapVars, gself, lifeVars, stack,
                 pyErr, foreignPassed, rejectedAt, xv, mt, jobs, excVars>>

NextRegistry ==
  \/ \E r \in Rts, n \in RegNodes : RegistryAdd(r, n)
  \/ \E n \in RegNodes : RegistryFinalize(n)

SpecRegistry == InitRegistry /\ [][NextRegistry]_vars

\* ------------------------------------- one pending exception translated
\* The exceptions quickjs_exception_to_python can find pending: the value
\* (null, undefined, or an object or other value that has properties), the
\* text JS_ToCString gives for it (by the kinds of JS_ToCString above), and
\* what reading its stack property does: there is none (undefined), it is a
\* string, the read throws (a getter or a proxy), or the value read has no
\* string form.
ExcValues == {"null", "undefined", "object"}
ExcStacks == {"absent", "string", "throws", "nostring"}
ExcTexts == ThrowKinds \cup {"other"}
\* The exits that meet a pending exception: those that hand it to
\* quickjs_exception_to_python (through quickjs_to_python in eval, call,
\* get, parse_json, json and execute_pending_job, and directly in
\* add_callable), and the two that test the result of JS_SetPropertyStr
ExitOps == {"translate", "set", "add_callable"}

\* module.c: quickjs_exception_to_python, the stack trace:
\* JS_GetPropertyStr(exception, "stack") unless the exception is null or
\* undefined, JS_ToCString of what was read unless the read failed, and
\* JS_FreeValue(stack).  got: a value was read; frees: JS_FreeValue(stack)
\* calls; cstring: the text ("NULL": none); pending: the read threw, and
\* its exception is now the pending one of the context
stack_cstring(val, stk) ==
  IF val \in {"null", "undefined"}
  THEN [got |-> FALSE, frees |-> 0, cstring |-> "NULL", pending |-> FALSE]
  ELSE IF stk = "throws"
  THEN [got |-> FALSE, frees |-> 0, cstring |-> "NULL", pending |-> TRUE]
  ELSE [got |-> TRUE, frees |-> 1, pending |-> FALSE,
        cstring |-> CASE stk = "absent" -> "undefined"
                      [] stk = "string" -> "trace"
                      [] OTHER -> "NULL"]

\* module.c: const char *safe_stack_cstring
safe_stack_cstring(cstring) == IF cstring = "NULL" THEN "" ELSE cstring

\* a translation that raises nothing when the text is missing
PyErr_Format_exception_NoPlaceholder(msg, stk) ==
  IF JS_ToCString(msg).null THEN <<>>
  ELSE <<[type |-> quickjs_exception_to_python(msg).type,
          text |-> msg, stack |-> safe_stack_cstring(stk)]>>

\* module.c: quickjs_exception_to_python, if (cstring != NULL) ... else:
\* the calls of PyErr_Format made, each with the type and the two parts of
\* the message
PyErr_Format_exception(msg, stk) ==
  IF JS_ToCString(msg).null
  THEN <<[type |-> "JSException", text |-> "FailedObtaining", stack |-> ""]>>
  ELSE <<[type |-> quickjs_exception_to_python(msg).type,
          text |-> msg, stack |-> safe_stack_cstring(stk)]>>

InitTranslate ==
  /\ InitBridge /\ rejectedAt = 0 /\ xv = NoValue /\ mt = NoThreads
  /\ jobs = NoJobs
  /\ \E val \in ExcValues, msg \in ExcTexts, stk \in ExcStacks,
        rc \in 1..MaxRc, was \in {"none", "HostError"}, op \in ExitOps :
       cv = [op |-> op, val |-> val, msg |-> msg, stack |-> stk, rc0 |-> rc,
             rc |-> rc, frees |-> 0, stackFrees |-> 0, stackRead |-> FALSE,
             raised |-> <<>>, err |-> was, pending |-> "exception",
             done |-> FALSE]

\* module.c: quickjs_exception_to_python on the pending exception cv:
\* cv.rc is the reference count of the exception value (JS_GetException hands
\* its reference over), cv.err the Python error indicator (PyErr_Format
\* replaces what is there), cv.pending the pending exception of the context
\* ("none" once JS_GetException has taken it, "stack" when the read of the
\* stack property left a new one)
TranslateApply ==
  /\ ~cv.done /\ cv.op = "translate"
  /\ LET st == stack_cstring(cv.val, cv.stack)
         calls == PyErr_Format_exception(cv.msg, st.cstring)
     IN cv' = [cv EXCEPT !.rc = @ - 1, !.frees = 1,
                         !.stackFrees = st.frees, !.stackRead = st.got,
                         !.raised = calls,
                         !.err = IF calls = <<>> THEN @
                                 ELSE calls[Len(calls)].type,
                         !.pending = IF st.pending THEN "stack" ELSE "none",
                         !.done = TRUE]
  /\ UNCHANGED <<limitVars, brackVars, heapVars, gself, lifeVars, stack,
                 pyErr, foreignPassed, rejectedAt, xv, mt, jobs, excVars>>

\* module.c: pyjscontext_set and pyjscontext_add_callable, if (ret != 1)
\* after JS_SetPropertyStr has failed with the exception cv pending:
\* PyErr_SetString(PyExc_TypeError, ...) and return NULL; JS_GetException is
\* not called
SetPropertyFailed ==
  /\ ~cv.done /\ cv.op \in {"set", "add_callable"}
  /\ cv' = [cv EXCEPT !.raised = <<[type |-> "TypeError",
                                    text |-> "Failed", stack |-> ""]>>,
                      !.err = "TypeError", !.done = TRUE]
  /\ UNCHANGED <<limitVars, brackVars, heapVars, gself, lifeVars, stack,
                 pyErr, foreignPassed, rejectedAt, xv, mt, jobs, excVars>>

\* the host code that called handles the error: PyErr_Clear
TranslateHandled ==
  /\ cv.done /\ cv.err # "none"
  /\ cv' = [cv EXCEPT !.err = "none"]
  /\ UNCHANGED <<limitVars, brackVars, heapVars, gself, lifeVars, stack,
                 pyErr, foreignPassed, rejectedAt, xv, mt, jobs, excVars>>

NextTranslate ==
  \/ TranslateApply
  \/ SetPropertyFailed
  \/ TranslateHandled

SpecTranslate == InitTranslate /\ [][NextTranslate]_vars

\* ------------------------------------------ one value, there and back
InitValue ==
  /\ InitBridge /\ rejectedAt = 0 /\ cv = NoConv /\ mt = NoThreads
  /\ jobs = NoJobs
  /\ \E item \in PyValues, lb \in {EngineIntBits, LongBits} :
       xv = [stage |-> "host", lb |-> lb, py |-> item,
             js |-> JsVal(Val("UNDEFINED", 0, <<>>)),
             out |-> Val("None", 0, <<>>)]

\* module.c: python_to_quickjs(self, item) on the value xv.py
HostToScript ==
  /\ xv.stage = "host"
  /\ xv' = [xv EXCEPT !.stage = "script",
                      !.js = JsVal(python_to_quickjs_val(xv.py, xv.lb))]
  /\ UNCHANGED <<limitVars, brackVars, heapVars, gself, lifeVars, stack,
                 pyErr, foreignPassed, rejectedAt, cv, mt, jobs, excVars>>

\* module.c: quickjs_to_python(runtime_data, value) on the value xv.js
ScriptToHost ==
  /\ xv.stage = "script"
  /\ xv' = [xv EXCEPT !.stage = "back", !.out = quickjs_to_python_val(xv.js)]
  /\ UNCHANGED <<limitVars, brackVars, heapVars, gself, lifeVars, stack,
                 pyErr, foreignPassed, rejectedAt, cv, mt, jobs, excVars>>

NextValue == HostToScript \/ ScriptToHost

SpecValue == InitValue /\ [][NextValue]_vars

\* Calls across two Contexts, made by host code outside any callable:
\* handles of both Contexts, argument lists of every shape, globals set
\* from handles, callables that return handles.  The primitive kinds convert
\* alike, so one of them stands for all of them in argument lists.
ArgItems == {Item("int", 0), Item("other", 0)} \cup
            {Item("Object", h) : h \in Handles}
ArgLists == UNION {[1..k -> ArgItems] : k \in 0..MaxArgs}

NextCall ==
  \/ /\ stack = <<>>
     /\ \E r \in Rts, t \in Targets :
          pyjscontext_get(r, Result("OBJECT", t), TRUE)
  \/ python_callables[A] = NULL /\ pyjscontext_add_callable(A, "ok", -1)
  \/ /\ stack = <<>>
     /\ \E h \in Handles, args \in ArgLists, mallocOk \in BOOLEAN :
          pyjsobject_tp_call(h, args, mallocOk)
  \/ \E n \in Nodes : js_python_function_call(n, <<>>, TRUE)
  \/ \E res \in ArgItems \cup {Raise} : PyReturn(res)
  \/ \E res \in {Result("INT", 0), Result("EXCEPTION", 0)} :
        ScriptReturn(res, TRUE)
  \/ /\ stack = <<>>
     /\ \E r \in Rts, item \in ArgItems : pyjscontext_set(r, item, -1, TRUE)

SpecCall == Init /\ [][NextCall]_vars

\* The dispatch of script calls to registered callables on one Context:
\* every exit path of js_python_function_call, with and without a time
\* limit, with callables that evaluate scripts themselves.
DispatchArgs ==
  LET vs == {JsVal(Val("INT", 1, <<>>)), JsVal(Val("INT", 2, <<>>))}
  IN UNION {[1..k -> vs] : k \in 0..MaxArgs} \cup
     {<<BigFloat>>, <<JsVal(Val("INT", 1, <<>>)), BigFloat>>}
DispatchResults == {Item("int", 0), Item("int", 1), Item("other", 0)}

NextDispatch ==
  \/ pyjscontext_eval_internal(A, "eval")
  \/ \E res \in {Result("INT", 0), Result("EXCEPTION", 0)} :
        ScriptReturn(res, TRUE)
  \/ \E n \in Nodes, argv \in DispatchArgs :
        js_python_function_call(n, argv, TRUE)
  \/ \E n \in Nodes : js_python_function_call(n, <<>>, FALSE)
  \/ \E res \in DispatchResults \cup {Raise} : PyReturn(res)
  \/ \E v \in {"neg", "nonneg"} : pyjscontext_set_time_limit(A, v, 0)
  \/ pyjscontext_add_callable(A, "ok", -1)

SpecDispatch == Init /\ [][NextDispatch]_vars

\* Script code reached from every host operation: evaluations, and reads,
\* writes and serialisations that meet script-defined accessors.
NextAccessor ==
  \/ pyjscontext_add_callable(A, "ok", -1)
  \/ pyjscontext_eval_internal(A, "eval")
  \/ \E res \in {Result("INT", 0), Result("EXCEPTION", 0)} :
        ScriptReturn(res, TRUE)
  \/ \E t \in Targets : pyjscontext_get(A, Result("OBJECT", t), TRUE)
  \/ pyjscontext_get_getter(A)
  \/ pyjscontext_set_setter(A)
  \/ \E h \in Handles : pyjsobject_json(h)
  \/ \E thrown \in BOOLEAN : AccessorReturn(thrown)
  \/ \E n \in Nodes : js_python_function_call(n, <<>>, TRUE)
  \/ \E res \in {Item("int", 0), Raise} : PyReturn(res)

SpecAccessor == Init /\ [][NextAccessor]_vars

\* Evaluations under a time limit.  A script that runs with the interrupt
\* handler registered is one that never ends by itself: it leaves only when
\* the engine interrupts it.  Scripts without the handler end when they like.
InterruptedReturn ==
  Interrupted /\ ScriptReturn(Result("EXCEPTION", 0), TRUE)

NextTimeLimit ==
  \/ pyjscontext_eval_internal(A, "eval")
  \/ /\ ScriptOnTop /\ ~interrupt_handler[Top.rt]
     /\ \E res \in {Result("INT", 0), Result("EXCEPTION", 0)} :
          ScriptReturn(res, TRUE)
  \/ InterruptedReturn
  \/ \E n \in Nodes : js_python_function_call(n, <<>>, TRUE)
  \/ \E res \in {Item("int", 0), Raise} : PyReturn(res)
  \/ \E v \in {"neg", "nonneg"}, ticks \in 0..MaxLimit :
        pyjscontext_set_time_limit(A, v, ticks)
  \/ pyjscontext_add_callable(A, "ok", -1)
  \/ Tick
  \/ \E r \in Rts : js_poll_interrupts(r)

SpecTimeLimit == Init /\ [][NextTimeLimit]_vars

\* the engine keeps polling, the clock advances, an interrupted script unwinds
SpecTimeLimitFair ==
  /\ SpecTimeLimit
  /\ WF_vars(Tick)
  /\ WF_vars(\E r \in Rts : js_poll_interrupts(r))
  /\ WF_vars(InterruptedReturn)

\* ------------------------------------------------- the explicit collector
\* Function objects that die only by the collector: scripts put them on
\* cycles and drop the globals of those that are on one; the host registers
\* callables, takes and drops handles of the functions, and calls gc().
NextGc ==
  \/ pyjscontext_add_callable(A, "ok", -1)
  \/ pyjscontext_eval_internal(A, "eval")
  \/ \E n \in Nodes : ScriptMakeCycle(n)
  \/ \E n \in Nodes : fn[n].cyc /\ ScriptDropGlobal(n)
  \/ \E res \in {Result("INT", 0), Result("EXCEPTION", 0)} :
        ScriptReturn(res, TRUE)
  \/ \E n \in Nodes : pyjscontext_get(A, Result("OBJECT", n), TRUE)
  \/ \E h \in Handles : pyjsobject_tp_dealloc(h)
  \/ pyjscontext_gc(A)

SpecGc == Init /\ [][NextGc]_vars

\* ------------------------------------------------- translated exceptions
\* Scripts and jobs that end with exceptions of every kind, with and without
\* a time limit configured.
NextExc ==
  \/ \E type \in {"eval", "module"} : pyjscontext_eval_internal(A, type)
  \/ \E e \in ThrowKinds : ScriptThrow(e)
  \/ \E res \in {Result("INT", 0), Result("EXCEPTION", 0)} :
        ScriptReturn(res, TRUE)
  \/ ScriptEnqueueJob
  \/ pyjscontext_execute_pending_job(A)
  \/ \E ret \in {-1, 1} : JobReturn(ret)
  \/ \E v \in {"neg", "nonneg"} : pyjscontext_set_time_limit(A, v, 0)
  \/ js_poll_interrupts(A)

SpecExc == Init /\ [][NextExc]_vars

\* ------------------------------------------------ retention of callables
\* Registered functions that scripts call, drop and put on cycles, on a
\* Context that handles keep alive, that the host drops and that Python's
\* cycle collector clears.
NextRetain ==
  \/ \E d \in Targets \cup {-1} : pyjscontext_add_callable(A, "ok", d)
  \/ pyjscontext_eval_internal(A, "eval")
  \/ \E n \in Nodes : js_python_function_call(n, <<>>, TRUE)
  \/ \E res \in {Item("int", 0), Raise} : PyReturn(res)
  \/ \E n \in Nodes : ScriptDropGlobal(n)
  \/ \E n \in Nodes : ScriptMakeCycle(n)
  \/ ScriptGC
  \/ \E res \in Results : ScriptReturn(res, TRUE)
  \/ \E h \in Handles : pyjsobject_tp_dealloc(h)
  \/ DropContext(A)
  \/ pyjscontext_tp_clear(A)

SpecRetain == Init /\ [][NextRetain]_vars

\* ------------------------------------------------ arguments of a dispatch
\* Script calls of registered functions with integers, the global object,
\* function objects and values no conversion accepts as arguments, in every
\* order.
ObjArg(t) == [tag |-> "OBJECT", n |-> t, s |-> <<>>]
ScriptArgs ==
  LET vs == {JsVal(Val("INT", 1, <<>>)), BigFloat} \cup
            {ObjArg(t) : t \in Targets}
  IN UNION {[1..k -> vs] : k \in 0..MaxArgs}

NextArgs ==
  \/ pyjscontext_add_callable(A, "ok", -1)
  \/ pyjscontext_eval_internal(A, "eval")
  \/ \E n \in Nodes, argv \in ScriptArgs :
        js_python_function_call(n, argv, TRUE)
  \/ \E res \in {Item("int", 0), Raise} : PyReturn(res)
  \/ \E res \in {Result("INT", 0), Result("EXCEPTION", 0)} :
        ScriptReturn(res, TRUE)

SpecArgs == Init /\ [][NextArgs]_vars

\* --------------------------------------------------- results of callables
\* Callables on Context A that return integers, values of no supported
\* type, handles of A and of B, kept or returned as the only reference,
\* with B alive or dropped by the host.
NextResult ==
  \/ /\ stack = <<>>
     /\ \E r \in Rts, t \in Targets :
          pyjscontext_get(r, Result("OBJECT", t), TRUE)
  \/ python_callables[A] = NULL /\ pyjscontext_add_callable(A, "ok", -1)
  \/ pyjscontext_eval_internal(A, "eval")
  \/ \E n \in Nodes : js_python_function_call(n, <<>>, TRUE)
  \/ \E res \in ArgItems \cup {Raise} : PyReturn(res)
  \/ \E h \in Handles : PyReturnLast(Item("Object", h))
  \/ \E res \in {Result("INT", 0), Result("EXCEPTION", 0)} :
        ScriptReturn(res, TRUE)
  \/ DropContext(B)

SpecResult == Init /\ [][NextResult]_vars

\* ---------------------------------------------------- draining the jobs
\* Host code with nothing in progress begins
\*   while ctx.execute_pending_job(): pass
\* and goes on calling when the loop has ended, as a test of idempotence does.
StartLoop ==
  /\ stack = <<>> /\ ~jobs.loop
  /\ jobs' = [jobs EXCEPT !.loop = TRUE, !.made = 0, !.ret = "none"]
  /\ UNCHANGED <<cv, xv, mt, excVars, rejectedAt, limitVars, brackVars,
                 heapVars, gself, lifeVars, stack, pyErr, foreignPassed>>

\* one call of the loop
LoopCall == jobs.loop /\ pyjscontext_execute_pending_job(A)

\* a job of the loop runs to its end
LoopJobDone == jobs.loop /\ JobReturn(1)

\* Evaluations whose scripts schedule jobs, single calls of
\* execute_pending_job with jobs that end well or badly, with and without a
\* time limit; then the loop, whose jobs schedule further jobs and end well.
NextJobs ==
  \/ ~jobs.loop /\ (\E type \in {"eval", "module"} :
                       pyjscontext_eval_internal(A, type))
  \/ \E res \in {Result("INT", 0), Result("EXCEPTION", 0)} :
        ScriptReturn(res, TRUE)
  \/ ScriptEnqueueJob
  \/ ~jobs.loop /\ pyjscontext_execute_pending_job(A)
  \/ ~jobs.loop /\ (\E ret \in {-1, 1} : JobReturn(ret))
  \/ ~jobs.loop /\ (\E v \in {"neg", "nonneg"}, ticks \in 0..MaxLimit :
                       pyjscontext_set_time_limit(A, v, ticks))
  \/ StartLoop
  \/ LoopCall
  \/ LoopJobDone

SpecJobs == Init /\ [][NextJobs]_vars

\* the host keeps calling and every job of the loop comes to its end
SpecJobsFair == SpecJobs /\ WF_vars(LoopCall) /\ WF_vars(LoopJobDone)

\* ------------------------------------------------------ two host threads
bridgeVars == <<limitVars, brackVars, heapVars, gself, lifeVars, stack, pyErr,
                foreignPassed, rejectedAt, excVars, cv, xv, jobs>>

\* one slot shared by every Context
SlotOf_Shared(r) == A

\* module.c: runtime_data->thread_state is a field of each Context
SlotOf(r) == r

\* module.c: prepare_call_js called by thread t on Context r.  A slot that
\* is already set fails the assert; without the assert it is overwritten.
prepare_call_js_by(M, t, r) ==
  LET clash == M.rt[SlotOf(r)].slot # 0 IN
  IF clash /\ ~M.ndebug THEN [M EXCEPT !.aborted = TRUE]
  ELSE LET M1 == [M EXCEPT !.overwritten = @ \/ clash,
                           !.rt[SlotOf(r)].slot = M.cur[t],
                           !.cur[t] = 0,
                           !.gilHolder = 0]
       IN IF M1.rt[r].has_time_limit
          THEN [M1 EXCEPT !.rt[r].handler = TRUE,
                          !.rt[r].limit = M1.rt[r].time_limit]
          ELSE M1

\* module.c: end_call_js called by thread t on Context r, once the GIL is
\* free.  An empty slot fails the assert, and PyEval_RestoreThread(NULL) is
\* fatal without it.
end_call_js_by(M, t, r) ==
  LET M1 == IF M.rt[r].has_time_limit THEN [M EXCEPT !.rt[r].handler = FALSE]
            ELSE M
  IN IF M1.rt[SlotOf(r)].slot = 0 THEN [M1 EXCEPT !.aborted = TRUE]
     ELSE [M1 EXCEPT !.cur[t] = M1.rt[SlotOf(r)].slot,
                     !.gilHolder = t,
                     !.rt[SlotOf(r)].slot = 0]

ThreadCanAct(t) ==
  mt.on /\ ~mt.aborted /\ mt.th[t].pc = "host" /\ mt.gilHolder = t

\* module.c: pyjscontext_eval_internal by thread t, up to JS_Eval
ThreadEnter(t, r) ==
  /\ ThreadCanAct(t)
  /\ LET M1 == prepare_call_js_by(mt, t, r) IN
     mt' = IF M1.aborted THEN M1
           ELSE [M1 EXCEPT !.th[t] = [pc |-> "js", rt |-> r,
                                      saved |-> mt.cur[t]],
                           !.rt[r].engine = @ + 1,
                           !.acted = r]
  /\ UNCHANGED bridgeVars

\* module.c: pyjscontext_eval_internal by thread t, from the return of
\* JS_Eval on; PyEval_RestoreThread waits for the GIL
ThreadExit(t) ==
  /\ mt.on /\ ~mt.aborted /\ mt.th[t].pc = "js" /\ mt.gilHolder = 0
  /\ LET r == mt.th[t].rt
         M1 == end_call_js_by([mt EXCEPT !.rt[r].engine = @ - 1], t, r)
     IN mt' = [M1 EXCEPT !.th[t].pc = "host", !.th[t].rt = 0, !.acted = r]
  /\ UNCHANGED bridgeVars

\* module.c: pyjscontext_set_time_limit by thread t
ThreadSetTimeLimit(t, r, v, ticks) ==
  /\ ThreadCanAct(t)
  /\ mt' = [mt EXCEPT !.rt[r].has_time_limit = (v = "nonneg"),
                      !.rt[r].time_limit = IF v = "nonneg" THEN ticks ELSE @,
                      !.acted = r]
  /\ UNCHANGED bridgeVars

\* module.c: pyjscontext_add_callable by thread t: one more node
ThreadAddCallable(t, r) ==
  /\ ThreadCanAct(t) /\ mt.rt[r].registry < MaxNodes
  /\ mt' = [mt EXCEPT !.rt[r].registry = @ + 1, !.acted = r]
  /\ UNCHANGED bridgeVars

\* The interpreter takes the GIL from the thread that runs host code ...
ThreadYield(t) ==
  /\ ThreadCanAct(t)
  /\ mt' = [mt EXCEPT !.gilHolder = 0, !.cur[t] = 0, !.acted = 0]
  /\ UNCHANGED bridgeVars

\* ... and gives it to a thread that waits in host code.
ThreadResume(t) ==
  /\ mt.on /\ ~mt.aborted /\ mt.th[t].pc = "host" /\ mt.gilHolder = 0
  /\ mt' = [mt EXCEPT !.gilHolder = t, !.cur[t] = t, !.acted = 0]
  /\ UNCHANGED bridgeVars

InitThreads ==
  /\ InitBridge /\ rejectedAt = 0 /\ cv = NoConv /\ xv = NoValue
  /\ jobs = NoJobs
  /\ \E b \in BOOLEAN : mt = [NoThreads EXCEPT !.on = TRUE, !.ndebug = b]

\* Each thread on a Context of its own: thread 1 on A, thread 2 on B.
NextThreadsOwn ==
  \/ \E t \in Threads : ThreadEnter(t, t)
  \/ \E t \in Threads : ThreadExit(t)
  \/ \E t \in Threads, v \in {"neg", "nonneg"}, ticks \in 1..MaxLimit :
        ThreadSetTimeLimit(t, t, v, ticks)
  \/ \E t \in Threads : ThreadAddCallable(t, t)
  \/ \E t \in Threads : ThreadYield(t)
  \/ \E t \in Threads : ThreadResume(t)

SpecThreadsOwn == InitThreads /\ [][NextThreadsOwn]_vars

\* Both threads on the one Context A.
NextThreadsShared ==
  \/ \E t \in Threads : ThreadEnter(t, A)
  \/ \E t \in Threads : ThreadExit(t)
  \/ \E t \in Threads, v \in {"neg", "nonneg"}, ticks \in 1..MaxLimit :
        ThreadSetTimeLimit(t, A, v, ticks)
  \/ \E t \in Threads : ThreadAddCallable(t, A)
  \/ \E t \in Threads : ThreadYield(t)
  \/ \E t \in Threads : ThreadResume(t)

SpecThreadsShared == InitThreads /\ [][NextThreadsShared]_vars

\* ----------------------------------------------- properties: the bracket
BracketOpen(r) == \E i \in 1..Len(stack) : stack[i].kind = "js" /\ stack[i].rt = r
CallableInProgress(i) == i \in 1..Len(stack) /\ stack[i].kind = "py"

C2_GilFollowsBracket ==
  /\ ScriptOnTop => (~gil /\ thread_state[Top.rt])
  /\ HostOnTop => (gil /\ \A r \in Rts : ~thread_state[r])

\* a bracketed operation has returned to the host through its error path
C2_Witness == stack = <<>> /\ pyErr = "JSException" /\ gil

C4_Orig == \A i \in 1..Len(stack) :
  CallableInProgress(i) => ~interrupt_handler[stack[i].rt]

\* C4 amended: while a callable invocation is in progress, a handler
\* registered on its Context belongs to a bracketed call made from inside
\* the callable; no handler is registered while the callable itself runs.
C4_NoHandlerWhileCallableRuns == \A i \in 1..Len(stack) :
  (CallableInProgress(i) /\ interrupt_handler[stack[i].rt]) =>
     \E j \in (i + 1)..Len(stack) :
        stack[j].kind = "js" /\ stack[j].rt = stack[i].rt

\* a callable is running and has configured a time limit itself
C4_Witness ==
  /\ stack # <<>> /\ Top.kind = "py"
  /\ has_time_limit[Top.rt] /\ ~interrupt_handler[Top.rt]

\* ------------------------------------- properties: registry and lifetimes
\* C5 as stated: every change of the registry and every release of a
\* callable, whichever operation triggered it, is made by a thread that
\* holds the GIL.
C5_Orig == mutHeld

\* C6: the reference taken by add_callable is released exactly once, in
\* whichever order pyjscontext_tp_clear and the finalizer run: never twice,
\* and once when the node has been freed.
C6_ReleasedOnce ==
  \A n \in Nodes : /\ released[n] <= 1
                   /\ node[n].st = "freed" => released[n] = 1
                   /\ (node[n].st = "linked" /\ node[n].obj = NULL)
                         => released[n] = 1

\* the finalizer has run on a node that pyjscontext_tp_clear cleared before
C6_Witness ==
  \E n \in Nodes : /\ node[n].st = "freed" /\ released[n] = 1
                   /\ rtState[node[n].rt] = "cleared"

LiveHandles(r) == {h \in Handles : handles[h].st = "live" /\ handles[h].rt = r}

\* C7: a Context is torn down only after its last handle and the host's own
\* reference are gone: its reference count is the host's reference plus one
\* per live handle, and it is torn exactly when that count is zero.
C7_AliveWhileHandles ==
  \A r \in Rts :
    /\ refcnt[r] = Cardinality(LiveHandles(r)) + (IF hostRef[r] THEN 1 ELSE 0)
    /\ rtState[r] = "torn" <=> refcnt[r] = 0

\* the host has dropped the Context and a handle alone keeps it alive
C7_Witness == ~hostRef[A] /\ rtState[A] # "torn" /\ LiveHandles(A) # {}

\* ------------------------------------------------ properties: conversions
\* C8: quickjs_to_python frees its input exactly once on every path (each
\* tag, the pending exception, an unknown tag, no memory for the handle):
\* afterwards the count of the input is one lower than before, except that
\* a handle made for an object-like value holds exactly one reference.
C8_ConsumesOne ==
  (cv.done /\ cv.tag # "none") =>
     /\ cv.frees = 1
     /\ cv.held = (IF cv.ret = "Object" THEN 1 ELSE 0)
     /\ cv.rc = cv.rc0 - 1 + cv.held
     /\ cv.ret = "Object" => cv.tag \in ObjectTags

\* the conversion of an object-like value has failed for lack of memory
C8_Witness ==
  cv.done /\ cv.tag \in ObjectTags /\ cv.err = "MemoryError" /\ cv.rc = cv.rc0 - 1

\* ------------------------------------------------------ properties: calls
\* C9: a call of a handle with a non-convertible argument at any position
\* is rejected atomically: no argument is converted or duplicated, no
\* argument array is allocated, prepare_call_js is not run, the engine is
\* not called, and the state of the Contexts is as before the call.
C9_RejectAtomic ==
  [][\A h \in Handles, args \in ArgLists :
       (/\ handles[h].st = "live"
        /\ FirstBad(handles[h].rt, args, 1) # 0
        /\ pyjsobject_tp_call(h, args, TRUE))
       => /\ TpCallPlan(handles[h].rt, args).conv = <<>>
          /\ ~TpCallPlan(handles[h].rt, args).alloc
          /\ pyErr' \in {"TypeError", "ValueError"}
          /\ UNCHANGED <<brackVars, heapVars, lifeVars, limitVars, gself,
                         stack, foreignPassed>>]_vars

\* a call was rejected for its second argument, the first being convertible
C9_Witness == rejectedAt = 2 /\ pyErr \in {"TypeError", "ValueError"}

C11_Orig ==
  (xv.stage # "none" /\ xv.stage # "host" /\ xv.py.kind = "int") =>
     xv.js = (IF Fits(xv.py.n, EngineIntBits)
              THEN JsVal(Val("INT", xv.py.n, <<>>))
              ELSE JsVal(Val("FLOAT64", PyNumber_Float(xv.py.n), <<>>)))

\* C12 as stated: a host bool, representable int, float, None or string,
\* converted to a script value and back, is equal to the original and of
\* the same kind.
C12_Orig ==
  (/\ xv.stage = "back"
   /\ xv.py.kind = "int" => Fits(xv.py.n, EngineIntBits))
  => xv.out = xv.py

\* ---------------------------------------------- properties: the dispatch
\* C13: with no time limit, a script call to a registered function whose
\* arguments convert starts the callable of that function once, with the
\* converted arguments in their order, before the script goes on; and the
\* value the script call yields is the conversion of what the callable
\* returned.
C13_CalledOnceInOrder ==
  [][/\ \A n \in Nodes, argv \in DispatchArgs :
          (/\ js_python_function_call(n, argv, TRUE)
           /\ ~has_time_limit[Top.rt]
           /\ \A i \in 1..Len(argv) : Convertible(argv[i]))
          => /\ Len(stack') = Len(stack) + 1
             /\ SubSeq(stack', 1, Len(stack)) = stack
             /\ stack'[Len(stack')].kind = "py"
             /\ stack'[Len(stack')].callee = n
             /\ Len(stack'[Len(stack')].args) = Len(argv)
             /\ \A i \in 1..Len(argv) :
                  stack'[Len(stack')].args[i] = quickjs_to_python_val(argv[i])
      /\ \A res \in DispatchResults :
          (PyReturn(res) /\ python_to_quickjs_possible(Top.rt, res) = "ok")
          => /\ stack' = Pop
             /\ jsRet' = Ret(python_to_quickjs_val(Val(res.kind, res.h, <<>>),
                                                   LongBits))]_vars

\* a callable runs with the two arguments of the script call, in order
C13_Witness ==
  /\ stack # <<>> /\ Top.kind = "py"
  /\ Top.args = <<Val("int", 1, <<>>), Val("int", 2, <<>>)>>

\* C14 as stated: when a callable raised and the script did not handle the
\* exception, the exception the evaluation raises has the callable's
\* exception as its cause.
C14_Orig ==
  (stack = <<>> /\ pyErr = "JSException" /\ pyInfo.msg = "PythonCallFailed")
    => pyInfo.cause = "HostError"

\* C15: whatever a dispatch returns to the engine (a value, or the exception
\* of any of its failure paths), the slot is set and the GIL released when
\* the script goes on; and the GIL is held while a callable runs.
C15_DispatchExit ==
  /\ jsRet.tag # "none" =>
       (ScriptOnTop /\ thread_state[Top.rt] /\ ~gil /\ violated = {})
  /\ (stack # <<>> /\ Top.kind = "py") => gil

\* a dispatch ended because the callable's result cannot be converted
C15_Witness == jsRet.msg = "ConvertResult" /\ ScriptOnTop /\ ~gil

\* C16 as stated: whenever script code runs, for an evaluation or for a
\* read, write or serialisation that meets a script-defined accessor, the
\* slot of its Context is set; and no dispatch finds the slot empty.
C16_Orig ==
  /\ ScriptOnTop => thread_state[Top.rt]
  /\ "prepare_call_python" \notin violated

C18_TornClean ==
  \A r \in Rts :
    rtState[r] = "torn" =>
      /\ python_callables[r] = NULL
      /\ \A n \in Nodes :
           /\ node[n].rt = r => (node[n].st = "freed" /\ released[n] = 1)
           /\ fn[n].rt = r => fn[n].st # "live"

\* a Context is torn down after as many registrations as there are nodes
C18_Witness ==
  /\ rtState[A] = "torn" /\ refcnt[A] = 0
  /\ \A n \in Nodes : node[n].rt = A /\ node[n].st = "freed"

\* ------------------------------------------------ properties: two threads
\* C19: with each thread on a Context of its own, a step on one Context
\* leaves every field of the other Context as it was, and a thread that
\* leaves the engine has its own thread state current again, the one it
\* saved when it entered.
C19_Isolated ==
  [][mt.on =>
       /\ \A r \in Rts : r # mt'.acted => mt'.rt[r] = mt.rt[r]
       /\ \A t \in Threads :
            (mt.th[t].pc = "js" /\ mt'.th[t].pc = "host")
              => (~mt'.aborted /\ mt'.cur[t] = mt.th[t].saved
                  /\ mt'.cur[t] = t)]_vars

\* thread 1 is back from the engine while thread 2 is in it, each with a
\* time limit of its own
C19_Witness ==
  /\ mt.on /\ mt.th[1].pc = "host" /\ mt.th[1].saved = 1 /\ mt.cur[1] = 1
  /\ mt.th[2].pc = "js" /\ mt.rt[B].slot = 2
  /\ mt.rt[A].time_limit = 1 /\ mt.rt[B].limit = 2

\* C20 as stated: when a thread starts an evaluation on a Context on which
\* another thread's evaluation is in progress, the slot is not overwritten
\* and the engine of the Context is not run by two threads at once.
C20_Orig ==
  mt.on => (~mt.overwritten /\ \A r \in Rts : mt.rt[r].engine <= 1)

C22_Orig ==
  [][\A r \in Rts : pyjscontext_gc(r)
        => (released' = released /\ refcnt' = refcnt /\ handles' = handles)]_vars

\* C22 amended: gc() releases, once, the callable of each registered function
\* object that the collector frees (one that only a cycle kept alive), and
\* changes no other host-side reference count: the callables of the
\* functions that stay, the Context and the handles are as before.
C22_GcReleasesCollected ==
  [][\A r \in Rts : pyjscontext_gc(r)
        => /\ refcnt' = refcnt /\ handles' = handles
           /\ \A n \in Nodes :
                IF /\ fn[n].st = "live" /\ fn[n].rt = r /\ fn[n].cyc
                   /\ ~fn[n].global /\ fn[n].rc = 1
                THEN released'[n] = released[n] + 1 /\ node'[n].st = "freed"
                ELSE /\ released'[n] = released[n] /\ node'[n].st = node[n].st
                     /\ node'[n].obj = node[n].obj]_vars

\* gc() has freed one function object and released its callable, and has
\* left alone another one that is on a cycle and still reachable
C22_Witness ==
  /\ stack = <<>>
  /\ \E n, k \in Nodes :
       /\ node[n].st = "freed" /\ released[n] = 1
       /\ fn[k].st = "live" /\ fn[k].cyc /\ released[k] = 0

\* --------------------------------------- properties: translated exceptions
\* C23 as stated: a pending exception of the engine is raised as the
\* stack-overflow type exactly when the engine's stack limit was exceeded,
\* and as the base type otherwise.
C23_Orig ==
  pyInfo.type # "none"
    => (pyErr = "StackOverflow" <=> StackLimitExceeded(pyInfo.msg))

\* C23 amended: a pending exception of the engine is raised as the
\* stack-overflow type exactly when its text could be obtained and contains
\* the words "stack overflow", whoever threw it, and as the base type
\* otherwise, a stack overflow whose text lacks the words included.
C23_ByText ==
  pyInfo.msg # "none"
    => LET text == JS_ToCString(pyInfo.msg) IN
       pyErr = IF /\ ~text.null
                  /\ \E i \in DOMAIN text.words : text.words[i] = "stack overflow"
               THEN "StackOverflow" ELSE "JSException"

\* the engine exceeded its stack limit under a script that had replaced the
\* toString of its errors, and the host was given the base type
C23_Witness ==
  /\ stack = <<>> /\ pyErr = "JSException"
  /\ pyInfo.msg = "StackOverflowRenamed"

\* C24: every error raised for a failure on the engine's side is an instance
\* of the base script-exception type, the stack-overflow type being a
\* subtype of it.
C24_Orig ==
  pyErr \in {"JSException", "StackOverflow"}
    => PyErr_GivenExceptionMatches(pyErr, "JSException")

\* ------------------------------------------- properties: rejected dispatch
\* C25: a dispatch made while a time limit is configured on its Context
\* throws the internal error and nothing else: no callable is invoked (no
\* frame is pushed), no argument is converted (no handle, no count, no host
\* error appears), and the bracket is as it was, the slot set and the GIL
\* released.
C25_RejectedUntouched ==
  [][\A n \in Nodes, argv \in DispatchArgs :
        (js_python_function_call(n, argv, TRUE) /\ has_time_limit[Top.rt])
        => /\ jsRet' = JS_Throw("TimeLimit")
           /\ stack' = stack
           /\ handles' = handles /\ refcnt' = refcnt /\ pyErr' = pyErr
           /\ UNCHANGED <<brackVars, heapVars, limitVars>>
           /\ thread_state'[Top.rt] /\ ~gil']_vars

\* a dispatch was rejected under a time limit; the script
\* goes on with the slot set and the GIL released
C25_Witness ==
  /\ ScriptOnTop /\ jsRet.msg = "TimeLimit" /\ has_time_limit[Top.rt]
  /\ thread_state[Top.rt] /\ ~gil /\ pyErr = "none"
  /\ \E n \in Nodes : fn[n].st = "live"

\* ---------------------------------------------- properties: the finalizer
\* C26: in every state the program reaches, a run of the finalizer on any
\* function object leaves the concurrency state as it finds it: the slot of
\* every Context, the registered handlers and their data are unchanged; on a
\* Context whose slot is set the GIL is released afterwards, on one whose
\* slot is empty the GIL is as before (held, if it was held); and a second
\* run on the same object changes nothing at all.
C26_FinalizerNeutral ==
  \A n \in Nodes :
    LET S1 == js_python_function_finalizer(St, n)
        r == fn[n].rt
    IN /\ S1.ts = St.ts /\ S1.ih = St.ih /\ S1.idata = St.idata
       /\ S1.vio = St.vio
       /\ (fn[n].opaque # NULL /\ thread_state[r]) => ~S1.gil
       /\ (fn[n].opaque # NULL /\ ~thread_state[r]) => S1.gil = gil
       /\ fn[n].opaque = NULL => S1 = St
       /\ js_python_function_finalizer(S1, n) = S1

\* while a script runs with the slot set and the GIL released, one function
\* object has been finalized and its callable released, and another is live
C26_Witness ==
  /\ ScriptOnTop /\ thread_state[Top.rt] /\ ~gil
  /\ \E n, k \in Nodes :
       /\ fn[n].st # "live" /\ fn[n].opaque = NULL /\ released[n] = 1
       /\ node[n].st = "freed"
       /\ fn[k].st = "live" /\ fn[k].opaque # NULL /\ fn[k].rt = Top.rt

\* ------------------------------------ properties: retention of callables
\* C27 as stated: every function object that is registered and not yet
\* finalized has a registry entry that holds a callable, retained and not
\* NULL, also after pyjscontext_tp_clear has run on its Context.
C27_Orig ==
  \A n \in Nodes :
    (fn[n].st = "live" /\ fn[n].opaque # NULL)
      => /\ node[fn[n].opaque].st = "linked"
         /\ node[fn[n].opaque].obj # NULL
         /\ released[fn[n].opaque] = 0

\* C27 amended: every function object that is registered and not yet
\* finalized has a registry entry of its own Context; until
\* pyjscontext_tp_clear runs on the Context the entry holds a callable that
\* is retained and not NULL, and from then until teardown it holds NULL, the
\* callable having been released once; every dispatch that invokes a
\* callable finds the entry of its function holding one.
C27_RetainedUntilCleared ==
  /\ \A n \in Nodes :
       (fn[n].st = "live" /\ fn[n].opaque # NULL)
         => LET nd == fn[n].opaque IN
            /\ node[nd].st = "linked" /\ node[nd].rt = fn[n].rt
            /\ rtState[fn[n].rt] \in {"active", "cleared"}
            /\ rtState[fn[n].rt] = "active"
                 => (node[nd].obj # NULL /\ released[nd] = 0)
            /\ rtState[fn[n].rt] = "cleared"
                 => (node[nd].obj = NULL /\ released[nd] = 1)
  /\ \A i \in 1..Len(stack) :
       (stack[i].kind = "py" /\ fn[stack[i].callee].st = "live")
         => /\ rtState[stack[i].rt] = "active"
            /\ node[fn[stack[i].callee].opaque].obj # NULL

\* Python's cycle collector has cleared a Context on which a registered
\* function is still to be finalized: its entry holds NULL
C27_Witness ==
  /\ rtState[A] = "cleared"
  /\ \E n \in Nodes :
       /\ fn[n].st = "live" /\ fn[n].rt = A /\ fn[n].opaque # NULL
       /\ node[fn[n].opaque].obj = NULL /\ released[fn[n].opaque] = 1

\* --------------------------------------- properties: arguments of a dispatch
\* C28: when the conversion of an argument of a dispatch fails, no callable
\* is invoked (no frame is pushed), the arguments converted before it are
\* released once each (no handle made for them is left, and the counts of
\* the Context and of the engine values are as before the dispatch), and
\* the engine is handed the internal error, with the bracket restored.
C28_FailedArgs ==
  [][\A n \in Nodes, argv \in ScriptArgs :
        (/\ js_python_function_call(n, argv, TRUE)
         /\ ~has_time_limit[Top.rt]
         /\ \E i \in 1..Len(argv) : ~Convertible(argv[i]))
        => /\ stack' = stack
           /\ handles' = handles /\ refcnt' = refcnt
           /\ fn' = fn /\ objrc' = objrc /\ node' = node
           /\ released' = released
           /\ jsRet'.tag = "EXCEPTION" /\ jsRet'.msg = "ConvertArgs"
           /\ thread_state' = thread_state /\ gil' = gil]_vars

\* a dispatch failed on its second argument after a handle had been made
\* for the first: no handle is left and the Context is counted once
C28_Witness ==
  /\ ScriptOnTop /\ jsRet.tag = "EXCEPTION" /\ jsRet.msg = "ConvertArgs"
  /\ jsRet.n = 1 /\ pyErr = "TypeError"
  /\ \A h \in Handles : handles[h].st = "none"
  /\ refcnt[Top.rt] = 1

\* ------------------------------------- properties: results of callables
\* C29: when a callable returns a value that python_to_quickjs_possible
\* refuses (a value of no supported type, or a handle of another Context),
\* the engine is handed an exception that the script can catch, no host
\* error is pending, the reference to the result is dropped (a handle that
\* nothing else refers to is freed and its Context released, any other
\* count is unchanged), nothing was converted, and the script goes on with
\* the slot set and the GIL released.
C29_RefusedResult ==
  [][\A res \in ArgItems, last \in BOOLEAN :
        (/\ PyReturnWith(res, last)
         /\ python_to_quickjs_possible(Top.rt, res) # "ok")
        => /\ jsRet'.tag = "EXCEPTION" /\ jsRet'.msg = "ConvertResult"
           /\ pyErr' = "none"
           /\ stack' = Pop
           /\ thread_state'[Top.rt] /\ ~gil'
           /\ objrc'[Top.rt] = objrc[Top.rt]
           /\ \A n \in Nodes : fn[n].rt = Top.rt => fn'[n] = fn[n]
           /\ IF last
              THEN /\ handles'[res.h].st = "none"
                   /\ refcnt'[handles[res.h].rt]
                        = refcnt[handles[res.h].rt] - 1
                   /\ refcnt'[Top.rt] = refcnt[Top.rt]
                   /\ \A h \in Handles \ {res.h} : handles'[h] = handles[h]
              ELSE /\ handles' = handles /\ refcnt' = refcnt
                   /\ fn' = fn /\ objrc' = objrc]_vars

\* a callable on A has returned the only reference to a handle of B: the
\* script goes on with the exception, no host error is pending and the
\* handle is gone
C29_Witness ==
  /\ ScriptOnTop /\ Top.rt = A
  /\ jsRet.tag = "EXCEPTION" /\ jsRet.msg = "ConvertResult" /\ jsRet.n = 1
  /\ pyErr = "none" /\ ~gil /\ thread_state[A]
  /\ \A h \in Handles : handles[h].st = "none"

NextHandle ==
  \/ pyjscontext_add_callable(A, "ok", -1)
  \/ \E r \in Rts, t \in Targets :
        pyjscontext_get(r, Result("OBJECT", t), TRUE)
  \/ \E h \in Handles : pyjsobject_tp_new(h)
  \/ \E h \in Handles : pyjsobject_tp_dealloc(h)
  \/ \E r \in Rts : LiveHandles(r) # {} /\ DropContext(r)
  \/ pyjscontext_gc(A)

SpecHandle == Init /\ [][NextHandle]_vars

C33_OneErrorOneRelease ==
  [][TranslateApply =>
       /\ Len(cv'.raised) = 1
       /\ cv'.raised[1].type \in {"JSException", "StackOverflow"}
       /\ cv'.err = cv'.raised[1].type
       /\ cv'.frees = 1 /\ cv'.rc = cv.rc0 - 1
       /\ cv'.stackRead <=> (cv.val = "object" /\ cv.stack # "throws")
       /\ cv'.stackFrees = (IF cv'.stackRead THEN 1 ELSE 0)
       /\ JS_ToCString(cv.msg).null =>
            cv'.raised[1] = [type |-> "JSException",
                             text |-> "FailedObtaining", stack |-> ""]
       /\ (~JS_ToCString(cv.msg).null /\ cv.stack \in {"throws", "nostring"})
            => cv'.raised[1].stack = ""
    ]_vars

\* an exception without string form, whose stack could not be read either,
\* was translated while another Python error was pending
C33_Witness ==
  /\ cv.done /\ cv.msg = "NoString" /\ cv.val = "object"
  /\ cv.stack = "throws" /\ cv.err = "JSException" /\ cv.frees = 1

RECURSIVE RegistryWalk(_, _, _)
\* module.c: struct PythonCallableNode: the nodes met from nd on by
\* following next until NULL, at most fuel of them
RegistryWalk(nodes, nd, fuel) ==
  IF nd = NULL \/ fuel = 0 THEN <<>>
  ELSE <<nd>> \o RegistryWalk(nodes, nodes[nd].next, fuel - 1)

\* C34: after any sequence of registrations and finalizer runs, on the
\* head, the middle or the tail of a list, the registry of a Context is a
\* NULL-terminated doubly linked list: following next from python_callables
\* ends at NULL without meeting a node twice, every node met is allocated
\* and belongs to the Context, the prev of the head is NULL and the prev of
\* every other node is the node before it, and a node is allocated exactly
\* when it is on the list of its Context.
C34_WellFormedList ==
  \A r \in Rts :
    LET w == RegistryWalk(cv.node, cv.head[r], MaxRegistry + 1) IN
    /\ Len(w) <= MaxRegistry
    /\ \A i, j \in 1..Len(w) : w[i] = w[j] => i = j
    /\ \A i \in 1..Len(w) :
         /\ cv.node[w[i]].st = "linked" /\ cv.node[w[i]].rt = r
         /\ cv.node[w[i]].prev = (IF i = 1 THEN NULL ELSE w[i - 1])
    /\ \A n \in RegNodes :
         (cv.node[n].st = "linked" /\ cv.node[n].rt = r)
           => \E i \in 1..Len(w) : w[i] = n

\* the node in the middle of a list of three was unlinked and freed
C34_Witness ==
  /\ cv.last = "middle"
  /\ \E a, c \in RegNodes :
       /\ a # c /\ cv.head[A] = a /\ cv.node[a].next = c
       /\ cv.node[c].prev = a /\ cv.node[c].next = NULL

\* C35: the registry holds the node of exactly the registered function
\* objects that the engine has not finalized.  A function object that is not
\* finalized has its node on the list of its Context; a finalized one has
\* its node freed and its callable released once.  A node leaves the list
\* only in a step that takes the last reference to its function object away
\* (the global it was registered under is overwritten by add_callable or by
\* set, or deleted by a script, a handle or an argument is released, or the
\* collector frees a cycle), or in the teardown of the Context; while a
\* reference is left, the node stays and is not freed, and no handle refers
\* to a function object whose node has left the list.
C35_NodePerLiveFunction ==
  /\ [](\A n \in Nodes :
          /\ fn[n].st = "live" =>
               /\ node[n].st = "linked" /\ node[n].rt = fn[n].rt
               /\ fn[n].opaque = n /\ fn[n].rc > 0
          /\ node[n].st = "linked" => fn[n].st = "live"
          /\ fn[n].st = "dead" => (node[n].st = "freed" /\ released[n] = 1))
  /\ [][\A n \in Nodes :
          (node[n].st = "linked" /\ node'[n].st # "linked")
            => /\ node'[n].st = "freed" /\ fn'[n].st = "dead"
               /\ \/ rtState'[node[n].rt] = "torn"
                  \/ fn[n].rc - (IF fn[n].cyc THEN 1 ELSE 0) <= 1
               /\ \A h \in Handles :
                    (handles'[h].st = "live" /\ handles'[h].rt = node[n].rt)
                      => handles'[h].val # n]_vars

\* The function registered first was displaced by a registration under its
\* name and its node freed; the function that displaced it is reachable,
\* its node is on the list and its callable is held.
C35_Witness ==
  /\ fn[1].st = "dead" /\ node[1].st = "freed" /\ released[1] = 1
  /\ fn[2].st = "live" /\ fn[2].global /\ node[2].st = "linked"
  /\ node[2].obj # NULL /\ released[2] = 0 /\ python_callables[A] = 2
  /\ rtState[A] = "active"

\* the callables held for the registry: one per node that is allocated or
\* was freed, less the releases made
HeldCallables ==
  [n \in Nodes |-> (IF node[n].st = "unalloc" THEN 0 ELSE 1) - released[n]]

\* a call of add_callable that fails without running script leaves the
\* lists and the callables held as they were
AddCallableFailed ==
  (\E how \in AddHow \ {"ok"}, d \in Targets \cup {-1} :
      pyjscontext_add_callable(A, how, d))
  => /\ python_callables' = python_callables
     /\ \A n \in Nodes :
          /\ (node[n].st = "linked") <=> (node'[n].st = "linked")
          /\ node[n].st = "linked" => node'[n] = node[n]
     /\ HeldCallables' = HeldCallables

\* a call of add_callable that fails in the setter of the name leaves the
\* node it made off the list and the callable released
AddCallableSetterFailed ==
  (ScriptOnTop /\ Top.op = "add" /\ AccessorReturn(TRUE))
  => /\ node'[Top.callee].st = "freed"
     /\ HeldCallables'[Top.callee] = 0
     /\ python_callables'[Top.rt] # Top.callee

\* C36 as stated: an add_callable that fails, at whatever step, leaves the
\* registry with the nodes it had before the call and the callable with the
\* reference count it had.
C36_Orig == [][AddCallableFailed /\ AddCallableSetterFailed]_vars

\* the step is the exit of a host-facing operation that ran script and
\* returns a value to the host
OperationReturnsValue ==
  \/ \E res \in Results, allocOk \in BOOLEAN :
        /\ quickjs_to_python(res.tag, allocOk).ret # "NULL"
        /\ ScriptReturn(res, allocOk)
  \/ \E ret \in {0, 1} : JobReturn(ret)
  \/ AccessorReturn(FALSE)

\* C37 as stated: a host-facing operation either returns a value with no
\* Python error set, or returns NULL with one set; an operation whose
\* script caught the failure of a callable returns its value with no error
\* set.
C37_Orig ==
  [][/\ OperationReturnsValue => pyErr' = "none"
     /\ pyErr' # "unset"]_vars

\* C38 as stated: when an operation has returned after the engine raised an
\* exception, the context holds no pending exception: the exception was
\* taken with JS_GetException once and released, also when it was raised
\* by a setter during set, by the installation of the global in
\* add_callable, or by the read of the stack property of another exception.
C38_Orig ==
  cv.done => (cv.pending = "none" /\ cv.frees = 1 /\ cv.rc = cv.rc0 - 1)

====
